---- MODULE Spec2Model ----
(***************************************************************************)
(* Expense-reader: the receipt store (src/app/database.py), the routes     *)
(* that drive it (src/app/main.py) and the filename helpers                *)
(* (src/core/file_utils.py), as one state machine.                         *)
(*                                                                         *)
(* Representation.                                                         *)
(*  - A Python str is a tuple of characters, each character a one-element  *)
(*    string ("A", "_", ".") or a named token for a non-ASCII character    *)
(*    ("<e-acute>").  None is NoneStr, a tuple no str can equal.           *)
(*  - A Python float is a record [re, du] of two rationals <<n, d>>: the   *)
(*    value re + du*eps, where eps is one unit beyond the 15th significant *)
(*    digit of the number (a dual number: eps*eps = 0).  Arithmetic is     *)
(*    exact on both parts.  A number typed with at most 15 significant     *)
(*    digits has du = 0; 0.30000000000000004 is [re = 3/10, du = 4].       *)
(*    None is NullNum.                                                     *)
(*  - The settings table keeps its values in a TEXT column; SQLite writes  *)
(*    a REAL into it with 15 significant digits (RealToText), and          *)
(*    get_default_setting reads it back with float() (TextToFloat).        *)
(***************************************************************************)
EXTENDS Integers, Sequences, FiniteSets, TLC

VARIABLES
    receipts,     \* table receipts: id -> row, for the ids present
    nextId,       \* sqlite_sequence of receipts: the id the next INSERT gets
    settings,     \* table settings: key -> TEXT value (or absent)
    categories,   \* table categories: <<type, value>> -> usage_count
    files,        \* the paths that exist on disk
    last,         \* the last request served: its route, arguments and answer,
                  \* and the row it addressed as it was before the request
    repriced,     \* the arguments of the last bulk reprice that succeeded
    dd,           \* inputs and result of the last stand-alone helper call
    conn          \* the connection of a split in progress: the row it read
                  \* and the statements it has executed and not committed

vars == <<receipts, nextId, settings, categories, files, last, repriced, dd, conn>>

\* ---------------------------------------------------------------- bounds
MaxId == 3          \* receipts ever inserted in one behaviour
MaxIdCalc == 1      \* the same, where the review form takes every input
MaxCenters == 2     \* cost centers in one split request
MaxTaken == 4       \* numeric suffixes present in a taken set
MaxUses == 3        \* selections category memory has counted

\* ------------------------------------------------------------- rationals
Abs(x) == IF x < 0 THEN -x ELSE x

RECURSIVE Gcd(_, _)
Gcd(a, b) == IF b = 0 THEN a ELSE Gcd(b, a % b)

Rat(n, d) ==
    LET g == Gcd(Abs(n), Abs(d))
        s == IF d < 0 THEN -1 ELSE 1
    IN  <<(s * n) \div g, (s * d) \div g>>

RInt(k) == <<k, 1>>
RAdd(a, b) == Rat(a[1] * b[2] + b[1] * a[2], a[2] * b[2])
RSub(a, b) == Rat(a[1] * b[2] - b[1] * a[2], a[2] * b[2])
RMul(a, b) == Rat(a[1] * b[1], a[2] * b[2])
RDiv(a, b) == Rat(a[1] * b[2], a[2] * b[1])
RPos(a) == a[1] > 0
RZero(a) == a[1] = 0

\* ---------------------------------------------------------------- floats
NullNum == [null |-> TRUE]

Num(re, du) == [re |-> re, du |-> du]
Dec(n, d) == Num(Rat(n, d), RInt(0))     \* a short decimal n/d
Fine(n, d, k) == Num(Rat(n, d), RInt(k)) \* n/d + k*eps

IsNum(x) == x # NullNum

\* Python truth value of a float-or-None: None and 0.0 are false.
TruthyNum(x) == IsNum(x) /\ ~(RZero(x.re) /\ RZero(x.du))

\* x > 0 for a float.
PosNum(x) == RPos(x.re) \/ (RZero(x.re) /\ RPos(x.du))

NumAdd(x, y) == Num(RAdd(x.re, y.re), RAdd(x.du, y.du))
NumMul(x, y) == Num(RMul(x.re, y.re), RAdd(RMul(x.re, y.du), RMul(x.du, y.re)))
\* x / y, y.re # 0:  (a + b eps)/(c + d eps) = a/c + (b c - a d)/c^2 eps
NumDiv(x, y) ==
    Num(RDiv(x.re, y.re),
        RDiv(RSub(RMul(x.du, y.re), RMul(x.re, y.du)), RMul(y.re, y.re)))
NumOfInt(k) == Num(RInt(k), RInt(0))

\* A division Python refuses: the divisor is 0.0.
DivisorZero(y) == RZero(y.re)

\* SQLite's REAL -> TEXT conversion keeps 15 significant digits: what lies
\* beyond them (the eps part) is rounded away.
RealToText(x) == [txt |-> x.re]
\* float(text)
TextToFloat(t) == Num(t.txt, RInt(0))

\* --------------------------------------------------------------- strings
NoneStr == <<"<None>">>

\* Python truth value of a str-or-None: None and '' are false.
TruthyStr(s) == s # NoneStr /\ s # <<>>

StartsWith(s, p) == Len(s) >= Len(p) /\ SubSeq(s, 1, Len(p)) = p

\* str.replace(old, new): every occurrence, left to right, not overlapping.
RECURSIVE StrReplace(_, _, _)
StrReplace(s, old, new) ==
    IF s = <<>> THEN <<>>
    ELSE IF StartsWith(s, old)
         THEN new \o StrReplace(SubSeq(s, Len(old) + 1, Len(s)), old, new)
         ELSE <<Head(s)>> \o StrReplace(Tail(s), old, new)

DigitChars == <<"0", "1", "2", "3", "4", "5", "6", "7", "8", "9">>

\* str(k) for an int k >= 0.
RECURSIVE IntToStr(_)
IntToStr(k) ==
    IF k < 10 THEN <<DigitChars[k + 1]>>
    ELSE IntToStr(k \div 10) \o <<DigitChars[(k % 10) + 1]>>

\* Character classes of the characters the model's inputs are written in.
Letters == {"A", "B", "U", "e", "n", "k", "o", "w", "p", "d", "f"}
Digits == {DigitChars[i] : i \in 1..10}
NonAscii == {"<e-acute>", "<combining-acute>", "<euro>"}

\* unicodedata.normalize('NFKD', c): e-acute decomposes into e and a
\* combining accent; the euro sign has no decomposition.
Nfkd(c) == IF c = "<e-acute>" THEN <<"e", "<combining-acute>">> ELSE <<c>>

RECURSIVE NfkdStr(_)
NfkdStr(s) == IF s = <<>> THEN <<>> ELSE Nfkd(Head(s)) \o NfkdStr(Tail(s))

IsAscii(c) == c \notin NonAscii
IsWordChar(c) == c \in Letters \cup Digits \cup {"_"}   \* \w on ASCII text
IsSpace(c) == c = " "                                     \* \s
IsSep(c) == IsSpace(c) \/ c = "-"                          \* [-\s]

\* re.sub(r'[-\s]+', '_', s)
RECURSIVE DropSep(_)
DropSep(s) == IF s # <<>> /\ IsSep(Head(s)) THEN DropSep(Tail(s)) ELSE s

RECURSIVE CollapseSep(_)
CollapseSep(s) ==
    IF s = <<>> THEN <<>>
    ELSE IF IsSep(Head(s)) THEN <<"_">> \o CollapseSep(DropSep(Tail(s)))
         ELSE <<Head(s)>> \o CollapseSep(Tail(s))

\* s.strip('_')
RECURSIVE LStrip(_)
LStrip(s) == IF s # <<>> /\ Head(s) = "_" THEN LStrip(Tail(s)) ELSE s

RECURSIVE RStrip(_)
RStrip(s) ==
    IF s # <<>> /\ s[Len(s)] = "_" THEN RStrip(SubSeq(s, 1, Len(s) - 1)) ELSE s

Unknown == <<"U", "n", "k", "n", "o", "w", "n">>

\* The steps in another order: the underscores stripped before the
\* separators are collapsed.
sanitize_filename_strip_first(text) ==
    IF ~TruthyStr(text) THEN Unknown
    ELSE LET ascii == SelectSeq(NfkdStr(text), IsAscii)
             kept == SelectSeq(ascii, LAMBDA c : IsWordChar(c) \/ IsSpace(c) \/ c = "-")
             stripped == RStrip(LStrip(kept))
             under == CollapseSep(stripped)
         IN  IF under # <<>> THEN under ELSE Unknown

sanitize_filename(text) ==
    IF ~TruthyStr(text) THEN Unknown
    ELSE LET ascii == SelectSeq(NfkdStr(text), IsAscii)
             kept == SelectSeq(ascii, LAMBDA c : IsWordChar(c) \/ IsSpace(c) \/ c = "-")
             under == CollapseSep(kept)
             stripped == RStrip(LStrip(under))
         IN  IF stripped # <<>> THEN stripped ELSE Unknown

\* date[:7]
Prefix7(date) == SubSeq(date, 1, IF Len(date) < 7 THEN Len(date) ELSE 7)

\* core.file_utils.format_receipt_filename; NoneStr is its None.
format_receipt_filename(date, restaurant_name) ==
    IF ~TruthyStr(date) \/ ~TruthyStr(restaurant_name) THEN NoneStr
    ELSE StrReplace(Prefix7(date), <<"-">>, <<"_">>) \o <<"_">>
            \o sanitize_filename(restaurant_name)

PdfExt == <<".", "p", "d", "f">>

\* The loop with its first suffix one too small: _1 after the bare name.
RECURSIVE DedupLoopFromOne(_, _, _)
DedupLoopFromOne(formatted_name, existing_filenames, counter) ==
    LET test_name == IF counter = 1 THEN formatted_name
                     ELSE formatted_name \o <<"_">> \o IntToStr(counter - 1)
    IN  IF test_name \in existing_filenames
        THEN DedupLoopFromOne(formatted_name, existing_filenames, counter + 1)
        ELSE test_name

\* The loop of update_receipt that looks for a free display name:
\* counter = 1; test_name = formatted_name; while test_name in existing ...
RECURSIVE DedupLoop(_, _, _)
DedupLoop(formatted_name, existing_filenames, counter) ==
    LET test_name == IF counter = 1 THEN formatted_name
                     ELSE formatted_name \o <<"_">> \o IntToStr(counter)
    IN  IF test_name \in existing_filenames
        THEN DedupLoop(formatted_name, existing_filenames, counter + 1)
        ELSE test_name

UniqueDisplayName(formatted_name, existing_filenames) ==
    DedupLoop(formatted_name, existing_filenames, 1)

\* core.file_utils.get_unique_filename; folder is the set of the file names
\* that exist in the destination folder.
RECURSIVE UniqueFileLoop(_, _, _, _)
UniqueFileLoop(folder, base_name, extension, counter) ==
    LET filename == base_name \o <<"_">> \o IntToStr(counter) \o extension
    IN  IF filename \notin folder THEN filename
        ELSE UniqueFileLoop(folder, base_name, extension, counter + 1)

get_unique_filename(folder, base_name, extension) ==
    IF (base_name \o extension) \notin folder THEN base_name \o extension
    ELSE UniqueFileLoop(folder, base_name, extension, 2)

\* ------------------------------------------------------------- the store
NoneTok == "<None>"             \* None for a categorical column
TruthyTok(t) == t # NoneTok /\ t # ""

NoSetting == [absent |-> TRUE]  \* no row for the key

\* A JSON string that is no number, 'abc'.
JsonText == [text |-> "abc"]

\* ExpenseDatabase.get_default_setting(key, default_value): float(value), or
\* the text itself when float() refuses it.
get_default_setting(st, key, default_value) ==
    IF st[key] = NoSetting THEN default_value
    ELSE IF st[key].txt = JsonText THEN JsonText
    ELSE TextToFloat(st[key])

\* amount = total / rate; amount = amount * (1 + markup / 100)
ConvertAmount(total_amount, fx_rate, markup_percent) ==
    NumMul(NumDiv(total_amount, fx_rate),
           NumAdd(NumOfInt(1), NumDiv(markup_percent, NumOfInt(100))))

\* add_receipt: the reporting amount of a new row.
AddAmount(total_amount, default_fx_rate, default_markup) ==
    IF TruthyNum(total_amount) /\ PosNum(total_amount)
    THEN ConvertAmount(total_amount, default_fx_rate, default_markup)
    ELSE NullNum

\* add_receipt: the row INSERTed; the columns it does not name take the
\* defaults of the schema.
AddedRow(st, filename, file_path, ocr_text, restaurant_name, date, total_amount) ==
    LET default_fx_rate == get_default_setting(st, "default_fx_rate", Dec(20, 1))
        default_markup == get_default_setting(st, "default_markup_percent", Dec(5, 2))
    IN  [filename |-> filename, file_path |-> file_path, ocr_text |-> ocr_text,
         restaurant_name |-> restaurant_name, date |-> date,
         total_amount |-> total_amount,
         cuenta_contable |-> "Comidas con Clientes", pais |-> "MX",
         cc |-> "Alternativos",
         fx_rate |-> default_fx_rate, markup_percent |-> default_markup,
         amount_mxn |-> AddAmount(total_amount, default_fx_rate, default_markup),
         reembolso |-> NoneTok, detalle |-> NoneTok,
         reviewed |-> FALSE, display_filename |-> NoneStr]

\* The new row marked reviewed.
InsertedReviewed(rs, id, row) ==
    [i \in DOMAIN rs \cup {id} |->
        IF i = id THEN [row EXCEPT !.reviewed = TRUE] ELSE rs[i]]

\* The table with one more row, under the next id.
Inserted(rs, id, row) ==
    [i \in DOMAIN rs \cup {id} |-> IF i = id THEN row ELSE rs[i]]

\* Every receipt up to the id removed.
RemovedUpTo(rs, id) == [i \in {j \in DOMAIN rs : j > id} |-> rs[i]]

Removed(rs, id) == [i \in DOMAIN rs \ {id} |-> rs[i]]

\* ExpenseDatabase.delete_receipt: what it returns and the table it leaves.
delete_receipt(rs, receipt_id) ==
    IF receipt_id \notin DOMAIN rs
    THEN [ret |-> FALSE, rows |-> rs]
    ELSE [ret |-> TRUE, rows |-> Removed(rs, receipt_id)]

\* update_receipt: (markup_percent or 2.5)
MarkupOrDefault(markup_percent) ==
    IF TruthyNum(markup_percent) THEN markup_percent ELSE Dec(5, 2)

\* update_receipt: the reporting amount it stores.
UpdateAmount(total_amount, fx_rate, markup_percent) ==
    IF TruthyNum(total_amount) /\ TruthyNum(fx_rate)
    THEN ConvertAmount(total_amount, fx_rate, MarkupOrDefault(markup_percent))
    ELSE NullNum

\* The display names of all reviewed receipts, the updated one included.
ExistingFilenamesOwnToo(rs, receipt_id) ==
    {StrReplace(rs[i].display_filename, PdfExt, <<>>) :
        i \in {j \in DOMAIN rs : /\ rs[j].reviewed
                                  /\ TruthyStr(rs[j].display_filename)}}

\* update_receipt: the display names taken by the other reviewed receipts,
\* each with '.pdf' replaced by ''.
ExistingFilenames(rs, receipt_id) ==
    {StrReplace(rs[i].display_filename, PdfExt, <<>>) :
        i \in {j \in DOMAIN rs : /\ j # receipt_id
                                  /\ rs[j].reviewed
                                  /\ TruthyStr(rs[j].display_filename)}}

\* The display filename kept as it was when the date or the name is missing.
UpdateDisplayFilenameKeep(rs, receipt_id, date, restaurant_name) ==
    IF TruthyStr(date) /\ TruthyStr(restaurant_name)
    THEN UniqueDisplayName(format_receipt_filename(date, restaurant_name),
                           ExistingFilenames(rs, receipt_id)) \o PdfExt
    ELSE rs[receipt_id].display_filename

\* update_receipt: the display filename it stores.
UpdateDisplayFilename(rs, receipt_id, date, restaurant_name) ==
    IF TruthyStr(date) /\ TruthyStr(restaurant_name)
    THEN LET formatted_name == format_receipt_filename(date, restaurant_name)
         IN  IF TruthyStr(formatted_name)
             THEN UniqueDisplayName(formatted_name, ExistingFilenames(rs, receipt_id))
                      \o PdfExt
             ELSE NoneStr
    ELSE NoneStr

\* update_receipt: UPDATE receipts SET ... WHERE id = ?
UpdatedRows(rs, receipt_id, restaurant_name, date, total_amount, cuenta_contable, cc, fx_rate, markup_percent, reembolso, detalle) ==
    [i \in DOMAIN rs |->
        IF i = receipt_id
        THEN [rs[i] EXCEPT
                !.restaurant_name = restaurant_name, !.date = date,
                !.total_amount = total_amount, !.cuenta_contable = cuenta_contable,
                !.cc = cc, !.fx_rate = fx_rate, !.markup_percent = markup_percent,
                !.amount_mxn = UpdateAmount(total_amount, fx_rate, markup_percent),
                !.reembolso = reembolso, !.detalle = detalle,
                !.display_filename =
                    UpdateDisplayFilename(rs, receipt_id, date, restaurant_name),
                !.reviewed = TRUE]
        ELSE rs[i]]

\* INSERT OR REPLACE with the column default for usage_count.
remember_category_once(cats, category_type, category_value) ==
    LET key == <<category_type, category_value>>
    IN  [k \in DOMAIN cats \cup {key} |-> IF k = key THEN 1 ELSE cats[k]]

\* _remember_category: INSERT OR REPLACE with usage_count + 1.
remember_category(cats, category_type, category_value) ==
    LET key == <<category_type, category_value>>
        old == IF key \in DOMAIN cats THEN cats[key] ELSE 0
    IN  [k \in DOMAIN cats \cup {key} |-> IF k = key THEN old + 1 ELSE cats[k]]

\* update_receipt: the three selections it remembers, in its order.
RememberSelections(cats, cuenta_contable, cc, reembolso) ==
    LET c1 == IF TruthyTok(cuenta_contable)
              THEN remember_category(cats, "cuenta_contable", cuenta_contable)
              ELSE cats
        c2 == IF TruthyTok(cc) THEN remember_category(c1, "cc", cc) ELSE c1
    IN  IF TruthyTok(reembolso) THEN remember_category(c2, "reembolso", reembolso)
        ELSE c2

\* The whole amount copied to every new row.
SplitAmountWhole(amount, n) ==
    IF TruthyNum(amount) THEN amount ELSE NumOfInt(0)

\* duplicate_receipt_with_cc_split: the amounts of each new row.
SplitAmount(amount, n) ==
    IF TruthyNum(amount) THEN NumDiv(amount, NumOfInt(n)) ELSE NumOfInt(0)

\* duplicate_receipt_with_cc_split: the row INSERTed for one cost center.
SplitRow(row, cc, n) ==
    [row EXCEPT !.total_amount = SplitAmount(row.total_amount, n),
                !.amount_mxn = SplitAmount(row.amount_mxn, n),
                !.cc = cc, !.reviewed = TRUE, !.display_filename = NoneStr]

\* duplicate_receipt_with_cc_split: the table after its INSERTs and its
\* DELETE; the k-th cost center's row gets the id first + k - 1.
SplitRows(rs, receipt_id, cost_centers, first) ==
    LET n == Len(cost_centers)
        new == first .. (first + n - 1)
    IN  [i \in (DOMAIN rs \cup new) \ {receipt_id} |->
            IF i \in new THEN SplitRow(rs[receipt_id], cost_centers[i - first + 1], n)
            ELSE rs[i]]

\* duplicate_receipt_with_cc_split raises ZeroDivisionError before it writes.
SplitRaises(row, cost_centers) ==
    /\ Len(cost_centers) = 0
    /\ TruthyNum(row.total_amount) \/ TruthyNum(row.amount_mxn)

\* Every row with a local amount repriced, whatever the amount's sign.
RepricedRowsAnySign(rs, new_fx_rate, markup_percent) ==
    [i \in DOMAIN rs |->
        IF IsNum(rs[i].total_amount)
        THEN [rs[i] EXCEPT !.fx_rate = new_fx_rate,
                           !.markup_percent = markup_percent,
                           !.amount_mxn =
                               ConvertAmount(rs[i].total_amount, new_fx_rate,
                                             markup_percent)]
        ELSE rs[i]]

\* update_all_fx_rates: the rows after its loop of UPDATEs.
RepricedRows(rs, new_fx_rate, markup_percent) ==
    [i \in DOMAIN rs |->
        IF /\ IsNum(rs[i].total_amount)
           /\ TruthyNum(rs[i].total_amount) /\ PosNum(rs[i].total_amount)
        THEN [rs[i] EXCEPT !.fx_rate = new_fx_rate,
                           !.markup_percent = markup_percent,
                           !.amount_mxn =
                               ConvertAmount(rs[i].total_amount, new_fx_rate,
                                             markup_percent)]
        ELSE rs[i]]

\* update_all_fx_rates: updated_count.
RepricedCount(rs) ==
    Cardinality({i \in DOMAIN rs : /\ IsNum(rs[i].total_amount)
                                   /\ TruthyNum(rs[i].total_amount)
                                   /\ PosNum(rs[i].total_amount)})

\* update_all_fx_rates: the two defaults it stores.
RepricedSettings(st, new_fx_rate, markup_percent) ==
    [st EXCEPT !["default_fx_rate"] = RealToText(new_fx_rate),
               !["default_markup_percent"] = RealToText(markup_percent)]

\* ------------------------------------------------------------ the reports
\* The generators fall back to their own conversion when the stored
\* reporting amount is empty and the local amount and the rate are not.
NeedsFallback(row) ==
    /\ ~TruthyNum(row.amount_mxn)
    /\ TruthyNum(row.total_amount)
    /\ TruthyNum(row.fx_rate)

\* ExcelExpenseGenerator.generate_monthly_report and the PDF summary table:
\* usd_base = total_amount / fx_rate; amount_usd = usd_base * (1 + markup/100)
ReportAmount(row) ==
    IF NeedsFallback(row)
    THEN ConvertAmount(row.total_amount, row.fx_rate, row.markup_percent)
    ELSE row.amount_mxn

\* ExcelExpenseGenerator.generate_summary_stats:
\* amount_with_markup = total_amount * (1 + markup/100)
\* amount_mxn = amount_with_markup * fx_rate
SummaryAmount(row) ==
    IF NeedsFallback(row)
    THEN NumMul(NumMul(row.total_amount,
                       NumAdd(NumOfInt(1),
                              NumDiv(row.markup_percent, NumOfInt(100)))),
                row.fx_rate)
    ELSE row.amount_mxn

\* generate_summary_stats adds None to a number (amount_mxn, total_amount,
\* fx_rate in avg_fx_rate), or divides None by 100.
SummaryRaises(row) ==
    \/ NeedsFallback(row) /\ ~IsNum(row.markup_percent)
    \/ ~NeedsFallback(row) /\ ~IsNum(row.amount_mxn)
    \/ ~IsNum(row.total_amount)
    \/ ~IsNum(row.fx_rate)

RECURSIVE SumOver(_, _)
SumOver(rs, ids) ==
    IF ids = {} THEN NumOfInt(0)
    ELSE LET i == CHOOSE j \in ids : TRUE
         IN  NumAdd(SummaryAmount(rs[i]), SumOver(rs, ids \ {i}))

Reviewed(rs) == {i \in DOMAIN rs : rs[i].reviewed}

\* ---------------------------------------------------------------- routes
Request(op, id, arg, ret, was) ==
    [op |-> op, id |-> id, arg |-> arg, ret |-> ret, was |-> was]

NoRow == [norow |-> TRUE]
RowOf(rs, id) == IF id \in DOMAIN rs THEN rs[id] ELSE NoRow

NoCall == [fn |-> "none"]

EmptyStore == [i \in {} |-> NoCall]

Init ==
    /\ receipts = EmptyStore
    /\ nextId = 1
    /\ settings = [k \in {"default_fx_rate", "default_markup_percent"} |-> NoSetting]
    /\ categories = [k \in {} |-> 0]
    /\ files = {}
    /\ last = Request("start", 0, NoCall, NoCall, NoRow)
    /\ repriced = NoCall
    /\ dd = NoCall
    /\ conn = NoCall

\* allowed_file: a file name is a tuple of words and dots.
ALLOWED_EXTENSIONS == {"png", "jpg", "jpeg", "gif", "bmp", "tiff", "pdf"}
Lower(w) == IF w = "JPG" THEN "jpg" ELSE IF w = "PDF" THEN "pdf" ELSE w

allowed_file(filename) ==
    /\ \E i \in 1..Len(filename) : filename[i] = "."
    /\ LET dot == CHOOSE i \in 1..Len(filename) :
                     /\ filename[i] = "."
                     /\ \A j \in (i + 1)..Len(filename) : filename[j] # "."
           ext == SubSeq(filename, dot + 1, Len(filename))
       IN  Len(ext) = 1 /\ Lower(ext[1]) \in ALLOWED_EXTENSIONS

UploadPath(filename) == <<"data/uploads/">> \o filename

NoData == [nodata |-> TRUE]     \* extract_receipt_data found nothing

\* POST /upload, one file of the request.
Upload(maxId, filename, extracted_text, receipt_data) ==
    /\ nextId <= maxId
    /\ IF filename # <<>> /\ allowed_file(filename)
       THEN /\ files' = files \cup {UploadPath(filename)}
            /\ IF TruthyStr(extracted_text)
               THEN /\ receipts' = Inserted(receipts, nextId,
                        AddedRow(settings, filename, UploadPath(filename),
                            extracted_text,
                            IF receipt_data = NoData THEN NoneStr
                            ELSE receipt_data.restaurant_name,
                            IF receipt_data = NoData THEN NoneStr
                            ELSE receipt_data.date,
                            IF receipt_data = NoData THEN NullNum
                            ELSE receipt_data.total_amount))
                    /\ nextId' = nextId + 1
                    /\ last' = Request("upload", nextId, filename, 1, NoRow)
               ELSE /\ UNCHANGED <<receipts, nextId>>
                    /\ last' = Request("upload", 0, filename, 0, NoRow)
       ELSE /\ UNCHANGED <<receipts, nextId, files>>
            /\ last' = Request("upload", 0, filename, 0, NoRow)
    /\ UNCHANGED <<settings, categories, repriced, dd, conn>>

\* A numeric field of the review form: '' (left empty), text that float()
\* refuses, or a number.
FormEmpty == [form |-> "empty"]
FormBad == [form |-> "bad"]
FormFloat(x) == IF x = FormEmpty THEN NullNum ELSE x

\* POST /update/<id>
UpdateReceiptRoute(receipt_id, form) ==
    /\ IF FormBad \in {form.total_amount, form.fx_rate, form.markup_percent}
       THEN /\ UNCHANGED <<receipts, categories>>
            /\ last' = Request("update", receipt_id, form, "invalid",
                               RowOf(receipts, receipt_id))
       ELSE /\ receipts' = UpdatedRows(receipts, receipt_id, form.restaurant_name,
                               form.date, FormFloat(form.total_amount),
                               form.cuenta_contable, form.cc,
                               FormFloat(form.fx_rate),
                               FormFloat(form.markup_percent),
                               form.reembolso, form.detalle)
            /\ categories' = RememberSelections(categories, form.cuenta_contable,
                                                form.cc, form.reembolso)
            /\ last' = Request("update", receipt_id, form, "updated",
                               RowOf(receipts, receipt_id))
    /\ UNCHANGED <<nextId, settings, files, repriced, dd, conn>>

\* POST /delete/<id>
DeleteReceiptRoute(receipt_id) ==
    /\ IF receipt_id \in DOMAIN receipts
       THEN /\ files' = files \ {receipts[receipt_id].file_path}
            /\ receipts' = Removed(receipts, receipt_id)
            /\ last' = Request("delete", receipt_id, NoCall, TRUE, receipts[receipt_id])
       ELSE /\ UNCHANGED <<receipts, files>>
            /\ last' = Request("delete", receipt_id, NoCall, FALSE, NoRow)
    /\ UNCHANGED <<nextId, settings, categories, repriced, dd, conn>>

\* A single cost center let through.
TooFewCentersBelowOne(cost_centers) == Len(cost_centers) < 1

\* divide_between_cost_centers: len(cost_centers) < 2
TooFewCenters(cost_centers) == Len(cost_centers) < 2

\* POST /divide-cc/<id>
DivideBetweenCostCenters(maxId, receipt_id, cost_centers) ==
    /\ nextId + Len(cost_centers) - 1 <= maxId
    /\ IF TooFewCenters(cost_centers)
       THEN /\ UNCHANGED <<receipts, nextId>>
            /\ last' = Request("split", receipt_id, cost_centers, 400,
                               RowOf(receipts, receipt_id))
       ELSE IF receipt_id \notin DOMAIN receipts
       THEN /\ UNCHANGED <<receipts, nextId>>
            /\ last' = Request("split", receipt_id, cost_centers, 500,
                               RowOf(receipts, receipt_id))
       ELSE IF SplitRaises(receipts[receipt_id], cost_centers)
       THEN /\ UNCHANGED <<receipts, nextId>>
            /\ last' = Request("split", receipt_id, cost_centers, 500,
                               RowOf(receipts, receipt_id))
       ELSE /\ receipts' = SplitRows(receipts, receipt_id, cost_centers, nextId)
            /\ nextId' = nextId + Len(cost_centers)
            /\ last' = Request("split", receipt_id, cost_centers, 200,
                               RowOf(receipts, receipt_id))
    /\ UNCHANGED <<settings, categories, files, repriced, dd, conn>>

\* The JSON body of /api/update-fx-rate: a key is absent, null or a number.
NoKey == [nokey |-> TRUE]
JsonGet(v, default) == IF v = NoKey THEN default ELSE v

\* POST /api/update-fx-rate
UpdateFxRate(data) ==
    LET fx_rate == JsonGet(data.fx_rate, NullNum)
        markup_percent == JsonGet(data.markup_percent, Dec(5, 2))
    IN  /\ IF fx_rate = JsonText
           THEN \* 'abc' <= 0 raises TypeError outside the try
                /\ UNCHANGED <<receipts, settings, repriced>>
                /\ last' = Request("reprice", 0, data, [status |-> 500], NoRow)
           ELSE IF ~TruthyNum(fx_rate) \/ ~PosNum(fx_rate)
           THEN /\ UNCHANGED <<receipts, settings, repriced>>
                /\ last' = Request("reprice", 0, data, [status |-> 400], NoRow)
           ELSE IF ~IsNum(markup_percent)
           THEN \* settings.value is NOT NULL: the INSERT raises, nothing is committed
                /\ UNCHANGED <<receipts, settings, repriced>>
                /\ last' = Request("reprice", 0, data, [status |-> 500], NoRow)
           ELSE IF markup_percent = JsonText
           THEN IF RepricedCount(receipts) > 0
                THEN \* markup_percent / 100 raises in the loop, nothing is committed
                     /\ UNCHANGED <<receipts, settings, repriced>>
                     /\ last' = Request("reprice", 0, data, [status |-> 500], NoRow)
                ELSE \* no row to convert: the two defaults are committed
                     /\ settings' =
                           [settings EXCEPT
                               !["default_fx_rate"] = RealToText(fx_rate),
                               !["default_markup_percent"] = [txt |-> JsonText]]
                     /\ repriced' = [fx_rate |-> fx_rate,
                                     markup_percent |-> markup_percent]
                     /\ UNCHANGED receipts
                     /\ last' = Request("reprice", 0, data,
                                    [status |-> 200, updated_count |-> 0], NoRow)
           ELSE /\ settings' = RepricedSettings(settings, fx_rate, markup_percent)
                /\ receipts' = RepricedRows(receipts, fx_rate, markup_percent)
                /\ repriced' = [fx_rate |-> fx_rate, markup_percent |-> markup_percent]
                /\ last' = Request("reprice", 0, data,
                               [status |-> 200, updated_count |-> RepricedCount(receipts)],
                               NoRow)
        /\ UNCHANGED <<nextId, categories, files, dd, conn>>

\* POST /api/add-cost-center: the name is absent, empty or a string.
AddCostCenter(cost_center_name) ==
    /\ IF ~TruthyTok(cost_center_name)
       THEN /\ UNCHANGED categories
            /\ last' = Request("add-cost-center", 0, cost_center_name, 400, NoRow)
       ELSE /\ categories' = remember_category(categories, "cc", cost_center_name)
            /\ last' = Request("add-cost-center", 0, cost_center_name, 200, NoRow)
    /\ UNCHANGED <<receipts, nextId, settings, files, repriced, dd, conn>>

\* clear-all that also empties sqlite_sequence, so that ids start again.
ClearAllReceiptsResetIds ==
    LET paths == {receipts[i].file_path : i \in DOMAIN receipts}
    IN  /\ files' = files \ paths
        /\ receipts' = EmptyStore
        /\ nextId' = 1
        /\ last' = Request("clear", 0, NoCall,
                       [deleted_records |-> Cardinality(DOMAIN receipts),
                        deleted_files |-> Cardinality(paths \cap files)],
                       NoRow)
        /\ UNCHANGED <<settings, categories, repriced, dd, conn>>

\* clear-all that leaves the record of a receipt whose file is missing.
ClearAllReceiptsKeepMissing ==
    LET paths == {receipts[i].file_path : i \in DOMAIN receipts}
        kept == {i \in DOMAIN receipts : receipts[i].file_path \notin files}
    IN  /\ files' = files \ paths
        /\ receipts' = [i \in kept |-> receipts[i]]
        /\ last' = Request("clear", 0, NoCall,
                       [deleted_records |-> Cardinality(DOMAIN receipts \ kept),
                        deleted_files |-> Cardinality(paths \cap files)],
                       NoRow)
        /\ UNCHANGED <<nextId, settings, categories, repriced, dd, conn>>

\* POST /api/clear-all
ClearAllReceipts ==
    LET paths == {receipts[i].file_path : i \in DOMAIN receipts}
    IN  /\ files' = files \ paths
        /\ receipts' = EmptyStore
        /\ last' = Request("clear", 0, NoCall,
                       [deleted_records |-> Cardinality(DOMAIN receipts),
                        deleted_files |-> Cardinality(paths \cap files)],
                       NoRow)
        /\ UNCHANGED <<nextId, settings, categories, repriced, dd, conn>>

\* ExcelExpenseGenerator.generate_summary_stats
GenerateSummaryStats ==
    /\ last' = Request("summary", 0, NoCall,
                  IF Reviewed(receipts) = {} THEN [none |-> TRUE]
                  ELSE IF \E i \in Reviewed(receipts) : SummaryRaises(receipts[i])
                  THEN [raised |-> "TypeError"]
                  ELSE [total_mxn |-> SumOver(receipts, Reviewed(receipts))],
                  NoRow)
    /\ UNCHANGED <<receipts, nextId, settings, categories, files, repriced, dd, conn>>

\* ------------------------------------------------- the dedup step, alone
\* Candidate names and taken sets for the dedup step called on its own.
Suffixed(name, k) == name \o <<"_">> \o IntToStr(k)

CafeName == <<"2", "0", "2", "5", "_", "1", "0", "_", "A">>

DedupCandidates == {CafeName, Suffixed(CafeName, 2)}

DedupUniverse ==
    {CafeName, Suffixed(Suffixed(CafeName, 2), 2)}
        \cup {Suffixed(CafeName, k) : k \in 1..MaxTaken}

InitDedup ==
    /\ receipts = EmptyStore
    /\ nextId = 1
    /\ settings = [k \in {"default_fx_rate", "default_markup_percent"} |-> NoSetting]
    /\ categories = [k \in {} |-> 0]
    /\ files = {}
    /\ last = Request("start", 0, NoCall, NoCall, NoRow)
    /\ repriced = NoCall
    /\ conn = NoCall
    /\ dd \in {[fn |-> "input", candidate |-> c, taken |-> t] :
                  c \in DedupCandidates, t \in SUBSET DedupUniverse}

\* update_receipt's dedup of candidate against the taken display names.
CallUniqueDisplayName ==
    /\ dd.fn = "input"
    /\ dd' = [fn |-> "UniqueDisplayName", candidate |-> dd.candidate,
              taken |-> dd.taken,
              result |-> UniqueDisplayName(dd.candidate, dd.taken)]
    /\ UNCHANGED <<receipts, nextId, settings, categories, files, last, repriced, conn>>

\* get_unique_filename(folder, candidate, '.pdf'), the folder holding
\* taken + '.pdf' for every taken name.
CallGetUniqueFilename ==
    /\ dd.fn = "input"
    /\ dd' = [fn |-> "get_unique_filename", candidate |-> dd.candidate,
              taken |-> dd.taken,
              result |-> get_unique_filename({t \o PdfExt : t \in dd.taken},
                                             dd.candidate, PdfExt)]
    /\ UNCHANGED <<receipts, nextId, settings, categories, files, last, repriced, conn>>

NextDedup == CallUniqueDisplayName \/ CallGetUniqueFilename

SpecDedup == InitDedup /\ [][NextDedup]_vars

\* C2: the dedup step returns the candidate unchanged when it is not taken,
\* and otherwise candidate_k for the smallest k >= 2 with candidate_k not
\* taken (the extension, if any, kept at the end); taken = {c} gives c_2 and
\* taken = {c, c_2} gives c_3.
SmallestFree(candidate, taken) ==
    CHOOSE k \in 2..(Cardinality(taken) + 2) :
        /\ Suffixed(candidate, k) \notin taken
        /\ \A j \in 2..(k - 1) : Suffixed(candidate, j) \in taken

ExpectedUnique(candidate, taken) ==
    IF candidate \notin taken THEN candidate
    ELSE Suffixed(candidate, SmallestFree(candidate, taken))

C2_DedupSmallestSuffix ==
    /\ dd.fn = "UniqueDisplayName" =>
          /\ dd.result = ExpectedUnique(dd.candidate, dd.taken)
          /\ dd.taken = {dd.candidate} => dd.result = Suffixed(dd.candidate, 2)
          /\ dd.taken = {dd.candidate, Suffixed(dd.candidate, 2)} =>
                dd.result = Suffixed(dd.candidate, 3)
    /\ dd.fn = "get_unique_filename" =>
          dd.result = ExpectedUnique(dd.candidate, dd.taken) \o PdfExt

C2_Witness ==
    /\ dd.fn = "UniqueDisplayName"
    /\ dd.candidate = CafeName
    /\ dd.taken = {CafeName, Suffixed(CafeName, 2)}
    /\ dd.result = Suffixed(CafeName, 3)

\* ------------------------------------------------ inputs of the requests
ReceiptJpg == <<"r1", ".", "jpg">>
OcrText == <<"t">>

NameA == <<"A">>
DateIso == <<"2", "0", "2", "5", "-", "1", "0", "-", "1", "5">>
DatePdf == <<".", "p", "d", "f">>

Form(restaurant_name, date, total_amount, fx_rate, markup_percent, cuenta_contable, cc, reembolso, detalle) ==
    [restaurant_name |-> restaurant_name, date |-> date,
     total_amount |-> total_amount, fx_rate |-> fx_rate,
     markup_percent |-> markup_percent, cuenta_contable |-> cuenta_contable,
     cc |-> cc, reembolso |-> reembolso, detalle |-> detalle]

Extracted(restaurant_name, date, total_amount) ==
    [restaurant_name |-> restaurant_name, date |-> date,
     total_amount |-> total_amount]

\* -------------------------------------- the store, display names in focus
NameUpload ==
    \E data \in {NoData, Extracted(NameA, DateIso, NullNum)} :
        Upload(MaxId, ReceiptJpg, OcrText, data)

NameUpdate ==
    \E id \in 1..MaxId, name \in {NameA}, date \in {<<>>, DateIso, DatePdf} :
        UpdateReceiptRoute(id,
            Form(name, date, FormEmpty, FormEmpty, FormEmpty, "", "", "", ""))

NameDelete == \E id \in 1..MaxId : DeleteReceiptRoute(id)

NameSplit ==
    \E id \in 1..MaxId, centers \in {<<"x">>, <<"x", "y">>} :
        DivideBetweenCostCenters(MaxId, id, centers)

NameReprice == UpdateFxRate([fx_rate |-> Dec(20, 1), markup_percent |-> NoKey])

NameClear == ClearAllReceipts

NextName ==
    \/ NameUpload
    \/ NameUpdate
    \/ NameDelete
    \/ NameSplit
    \/ NameReprice
    \/ NameClear

SpecName == Init /\ [][NextName]_vars

\* C1: no two distinct reviewed receipts hold the same non-null persisted
\* display filename, in any state that uploads, updates, splits, deletes,
\* bulk reprices and clear-alls reach.
C1_DisplayFilenamesUnique ==
    \A i \in DOMAIN receipts, j \in DOMAIN receipts :
        (/\ i # j
         /\ receipts[i].reviewed /\ receipts[j].reviewed
         /\ receipts[i].display_filename # NoneStr)
        => receipts[i].display_filename # receipts[j].display_filename

\* An update that reached the store, addressed to a row that exists.
UpdateDone ==
    /\ last.op = "update"
    /\ last.ret = "updated"
    /\ last.id \in DOMAIN receipts

IncompleteName ==
    ~TruthyStr(last.arg.date) \/ ~TruthyStr(last.arg.restaurant_name)

\* C3 as claimed: an update with the date or the restaurant name missing
\* leaves the receipt's previously persisted display filename unchanged.
C3_DisplayFilenameKept ==
    (UpdateDone /\ IncompleteName)
    => receipts[last.id].display_filename = last.was.display_filename

\* C3 as the code has it: an update with the date or the restaurant name
\* missing sets the receipt's display filename to null, whatever it was.
C3_DisplayFilenameCleared ==
    (UpdateDone /\ IncompleteName)
    => receipts[last.id].display_filename = NoneStr

C3_Witness ==
    /\ UpdateDone /\ IncompleteName
    /\ last.was.display_filename # NoneStr
    /\ receipts[last.id].display_filename = NoneStr

\* ------------------------------------ the review form, amounts in focus
CalcAmounts == {FormEmpty, Dec(0, 1), Dec(-100, 1), Dec(100, 1)}
CalcRates == {FormEmpty, Dec(0, 1), Dec(-20, 1), Dec(20, 1)}
CalcMarkups == {FormEmpty, Dec(0, 1), Dec(5, 1)}

CalcUpload ==
    \E data \in {NoData, Extracted(NoneStr, NoneStr, Dec(100, 1))} :
        Upload(MaxIdCalc, ReceiptJpg, OcrText, data)

CalcUpdate ==
    \E id \in 1..MaxIdCalc, total \in CalcAmounts, rate \in CalcRates,
       markup \in CalcMarkups :
        UpdateReceiptRoute(id, Form(<<>>, <<>>, total, rate, markup, "", "", "", ""))

CalcUpdateInvalid ==
    \E id \in 1..MaxIdCalc :
        UpdateReceiptRoute(id,
            Form(<<>>, <<>>, Dec(100, 1), FormBad, FormEmpty, "", "", "", ""))

NextCalc ==
    \/ CalcUpload
    \/ CalcUpdate
    \/ CalcUpdateInvalid

SpecCalc == Init /\ [][NextCalc]_vars

\* The formula of the reporting amount:
\* (local_amount / fx_rate) * (1 + markup_percent / 100)
ReportingFormula(local_amount, fx_rate, markup_percent) ==
    NumMul(NumDiv(local_amount, fx_rate),
           NumAdd(NumOfInt(1), NumDiv(markup_percent, NumOfInt(100))))

\* Absent, zero or negative.
NotPositive(x) == ~IsNum(x) \/ ~PosNum(x)

\* C4: the reporting amount update computes is null whenever the local
\* amount is absent, zero or negative, or the exchange rate is absent, zero
\* or negative.
C4_NullUnlessPositive ==
    (/\ UpdateDone
     /\ \/ NotPositive(receipts[last.id].total_amount)
        \/ NotPositive(receipts[last.id].fx_rate))
    => receipts[last.id].amount_mxn = NullNum

\* C5: update computes the reporting amount with markup 2.5 exactly when no
\* markup percent is supplied, and with the supplied value otherwise.
C5_MarkupDefaultOnlyWhenAbsent ==
    (UpdateDone /\ IsNum(receipts[last.id].amount_mxn))
    => receipts[last.id].amount_mxn =
          ReportingFormula(receipts[last.id].total_amount,
                           receipts[last.id].fx_rate,
                           IF last.arg.markup_percent = FormEmpty THEN Dec(5, 2)
                           ELSE last.arg.markup_percent)

\* ----------------------------- the store, rates and amounts in focus
Centers == {"x", "y"}
CenterLists == UNION {[1..n -> Centers] : n \in 0..MaxCenters}

FxUpload ==
    \E total \in {NullNum, Dec(100, 1), Dec(-100, 1)} :
        Upload(MaxId, ReceiptJpg, OcrText, Extracted(NoneStr, NoneStr, total))

FxUpdate ==
    \E id \in 1..MaxId :
        UpdateReceiptRoute(id,
            Form(<<>>, <<>>, Dec(100, 1), Dec(20, 1), Dec(5, 1), "", "", "", ""))

FxSplit ==
    \E id \in 1..MaxId, centers \in CenterLists :
        DivideBetweenCostCenters(MaxId, id, centers)

FxReprice ==
    \E rate \in {Dec(0, 1), Dec(10, 1)} :
        UpdateFxRate([fx_rate |-> rate, markup_percent |-> Dec(5, 1)])

FxDelete == \E id \in 1..MaxId : DeleteReceiptRoute(id)

FxSummary == GenerateSummaryStats

NextFx ==
    \/ FxUpload
    \/ FxUpdate
    \/ FxSplit
    \/ FxReprice
    \/ FxDelete
    \/ FxSummary

SpecFx == Init /\ [][NextFx]_vars

\* What a report shows for a row, were every place to use the formula.
FormulaAmount(row) ==
    IF NeedsFallback(row)
    THEN ReportingFormula(row.total_amount, row.fx_rate, row.markup_percent)
    ELSE row.amount_mxn

RECURSIVE FormulaSum(_, _)
FormulaSum(rs, ids) ==
    IF ids = {} THEN NumOfInt(0)
    ELSE LET i == CHOOSE j \in ids : TRUE
         IN  NumAdd(FormulaAmount(rs[i]), FormulaSum(rs, ids \ {i}))

\* C6: every place that derives a reporting amount from a local amount, a
\* rate and a markup yields (local / rate) * (1 + markup / 100): the amount
\* update stores, the amount bulk reprice stores, and the amount the summary
\* of the Excel generator computes for a row that has none stored.
C6_OneFormulaEverywhere ==
    /\ (UpdateDone /\ IsNum(receipts[last.id].amount_mxn))
       => receipts[last.id].amount_mxn =
              ReportingFormula(receipts[last.id].total_amount,
                               receipts[last.id].fx_rate,
                               receipts[last.id].markup_percent)
    /\ (last.op = "reprice" /\ last.ret.status = 200)
       => \A i \in DOMAIN receipts :
              (IsNum(receipts[i].total_amount) /\ PosNum(receipts[i].total_amount))
              => receipts[i].amount_mxn =
                     ReportingFormula(receipts[i].total_amount,
                                      last.arg.fx_rate, last.arg.markup_percent)
    /\ (last.op = "summary" /\ "total_mxn" \in DOMAIN last.ret)
       => last.ret.total_mxn = FormulaSum(receipts, Reviewed(receipts))

PositiveAmount(row) == IsNum(row.total_amount) /\ PosNum(row.total_amount)

\* C7: a successful bulk reprice with rate r > 0 and markup m sets rate r,
\* markup m and reporting amount (local / r) * (1 + m / 100) on exactly the
\* receipts whose local amount is non-null and positive, leaves every other
\* receipt unchanged, and returns the number of receipts with a positive
\* local amount.
C7_RepriceExactlyPositive ==
    [][(last'.op = "reprice" /\ last'.ret.status = 200)
       => LET r == last'.arg.fx_rate
              m == last'.arg.markup_percent
          IN  /\ PosNum(r)
              /\ DOMAIN receipts' = DOMAIN receipts
              /\ \A i \in DOMAIN receipts :
                    IF PositiveAmount(receipts[i])
                    THEN receipts'[i] =
                            [receipts[i] EXCEPT
                                !.fx_rate = r, !.markup_percent = m,
                                !.amount_mxn =
                                    ReportingFormula(receipts[i].total_amount, r, m)]
                    ELSE receipts'[i] = receipts[i]
              /\ last'.ret.updated_count =
                    Cardinality({i \in DOMAIN receipts : PositiveAmount(receipts[i])})
      ]_vars

C7_Witness ==
    /\ last.op = "reprice"
    /\ last.ret.status = 200
    /\ last.ret.updated_count = 1
    /\ \E i \in DOMAIN receipts :
          /\ PositiveAmount(receipts[i])
          /\ receipts[i].fx_rate = last.arg.fx_rate
    /\ \E i \in DOMAIN receipts :
          /\ receipts[i].total_amount = NullNum
          /\ receipts[i].fx_rate # last.arg.fx_rate
    /\ \E i \in DOMAIN receipts :
          /\ IsNum(receipts[i].total_amount)
          /\ ~PosNum(receipts[i].total_amount)
          /\ receipts[i].fx_rate # last.arg.fx_rate

\* local / N, nothing for no amount.
ShareOrNull(amount, n) ==
    IF IsNum(amount) THEN NumDiv(amount, NumOfInt(n)) ELSE NullNum

\* local / N, zero for no amount.
ShareOrZero(amount, n) ==
    IF IsNum(amount) THEN NumDiv(amount, NumOfInt(n)) ELSE NumOfInt(0)

\* A split of an existing receipt across N >= 2 cost centers succeeds,
\* removes the original and inserts N reviewed receipts, one per center in
\* the order given, with the amounts Share gives.
SplitOutcome(Share(_, _)) ==
    (/\ last'.op = "split"
     /\ Len(last'.arg) >= 2
     /\ last'.id \in DOMAIN receipts)
    => LET n == Len(last'.arg)
           orig == receipts[last'.id]
           new == DOMAIN receipts' \ DOMAIN receipts
       IN  /\ last'.ret = 200
           /\ last'.id \notin DOMAIN receipts'
           /\ DOMAIN receipts' = (DOMAIN receipts \ {last'.id}) \cup new
           /\ Cardinality(new) = n
           /\ Cardinality(DOMAIN receipts') = Cardinality(DOMAIN receipts) + n - 1
           /\ \E f \in [1..n -> new] :
                 /\ \A j, k \in 1..n : j # k => f[j] # f[k]
                 /\ \A k \in 1..n : receipts'[f[k]].cc = last'.arg[k]
           /\ \A i \in new :
                 /\ receipts'[i].reviewed
                 /\ receipts'[i].total_amount = Share(orig.total_amount, n)
                 /\ receipts'[i].amount_mxn = Share(orig.amount_mxn, n)

\* C9 as claimed: splitting an existing receipt across N >= 2 cost centers
\* removes the original and inserts exactly N new reviewed receipts, one per
\* given cost center, each with local amount = original local amount / N and
\* reporting amount = original reporting amount / N; the number of receipts
\* grows by N - 1 and the original id is absent afterwards.
C9_SplitSharesOfOriginal == [][SplitOutcome(ShareOrNull)]_vars

\* C9 as the code has it: the same, the new receipts carrying the amount 0
\* where the original's amount is null.
C9_SplitSharesOrZero == [][SplitOutcome(ShareOrZero)]_vars

C9_Witness ==
    /\ last.op = "split"
    /\ last.ret = 200
    /\ Len(last.arg) = 2
    /\ last.was.total_amount = NullNum
    /\ last.id \notin DOMAIN receipts
    /\ \E i \in DOMAIN receipts :
          /\ receipts[i].cc = last.arg[2]
          /\ receipts[i].reviewed
          /\ receipts[i].total_amount = NumOfInt(0)
          /\ receipts[i].amount_mxn = NumOfInt(0)

\* C10: a split given fewer than 2 cost centers (0 or 1) fails and leaves
\* the store unchanged: the original receipt remains and no receipt is
\* inserted or deleted.
C10_TooFewCentersNoChange ==
    [][(last'.op = "split" /\ Len(last'.arg) < 2)
       => /\ last'.ret # 200
          /\ receipts' = receipts
          /\ nextId' = nextId
          /\ files' = files
      ]_vars

C10_Witness ==
    /\ last.op = "split"
    /\ Len(last.arg) = 1
    /\ last.ret = 400
    /\ last.id \in DOMAIN receipts
    /\ receipts[last.id] = last.was

\* ------------------------------------- the stored defaults, in focus
\* 0.30000000000000004: a rate with 17 significant digits.
RateLong == Fine(3, 10, 4)

DefUpload ==
    \E total \in {NullNum, Dec(100, 1)} :
        Upload(MaxId, ReceiptJpg, OcrText, Extracted(NoneStr, NoneStr, total))

DefReprice ==
    \E rate \in {NoKey, Dec(10, 1), RateLong}, markup \in {NoKey, NullNum, Dec(5, 1)} :
        UpdateFxRate([fx_rate |-> rate, markup_percent |-> markup])

DefDelete == \E id \in 1..MaxId : DeleteReceiptRoute(id)

NextDefaults ==
    \/ DefUpload
    \/ DefReprice
    \/ DefDelete

SpecDefaults == Init /\ [][NextDefaults]_vars

\* C8: after a bulk reprice with rate r and markup m, every receipt created
\* before the next bulk reprice is stored with rate r and markup m, with
\* reporting amount (local / r) * (1 + m / 100) if a positive local amount
\* is supplied and a null reporting amount otherwise, also when the reprice
\* updated no receipt.
C8_NewReceiptsTakeRepricedDefaults ==
    (last.op = "upload" /\ last.ret = 1 /\ repriced # NoCall)
    => LET row == receipts[last.id]
       IN  /\ row.fx_rate = repriced.fx_rate
           /\ row.markup_percent = repriced.markup_percent
           /\ row.amount_mxn =
                 IF PositiveAmount(row)
                 THEN ReportingFormula(row.total_amount, repriced.fx_rate,
                                       repriced.markup_percent)
                 ELSE NullNum

\* ------------------------------------ the split, statement by statement
\* duplicate_receipt_with_cc_split executes its SELECT, its INSERTs and its
\* DELETE on one connection and commits once.  The first INSERT opens the
\* transaction and takes the write lock; until the commit the other
\* connections read the committed table, which is the variable receipts.
SplitConn(receipt_id, cost_centers, receipt) ==
    [fn |-> "split", receipt_id |-> receipt_id, cost_centers |-> cost_centers,
     receipt |-> receipt, inserted |-> 0, deleted |-> FALSE]

\* No connection holds the write lock of the database.
WriteLockFree == IF conn = NoCall THEN TRUE ELSE conn.inserted = 0

\* The ids a split in progress will still take.
Reserved == IF conn = NoCall THEN 0 ELSE Len(conn.cost_centers)

\* All but the last INSERT reach the table.
CommittedAllButLast(rs, c, first) ==
    LET n == Len(c.cost_centers)
        new == first .. (first + c.inserted - 2)
        gone == IF c.deleted THEN {c.receipt_id} ELSE {}
    IN  [i \in (DOMAIN rs \cup new) \ gone |->
            IF i \in new THEN SplitRow(c.receipt, c.cost_centers[i - first + 1], n)
            ELSE rs[i]]

\* conn.commit(): the statements of the transaction reach the table, the
\* rows of the INSERTs under the ids first, first + 1, ...
Committed(rs, c, first) ==
    LET n == Len(c.cost_centers)
        new == first .. (first + c.inserted - 1)
        gone == IF c.deleted THEN {c.receipt_id} ELSE {}
    IN  [i \in (DOMAIN rs \cup new) \ gone |->
            IF i \in new THEN SplitRow(c.receipt, c.cost_centers[i - first + 1], n)
            ELSE rs[i]]

\* POST /divide-cc/<id> up to the SELECT of the original receipt.
SplitSelect(maxId, receipt_id, cost_centers) ==
    /\ conn = NoCall
    /\ nextId + Len(cost_centers) - 1 <= maxId
    /\ IF TooFewCenters(cost_centers)
       THEN /\ last' = Request("split", receipt_id, cost_centers, 400,
                               RowOf(receipts, receipt_id))
            /\ UNCHANGED conn
       ELSE IF receipt_id \notin DOMAIN receipts
       THEN /\ last' = Request("split", receipt_id, cost_centers, 500, NoRow)
            /\ UNCHANGED conn
       ELSE /\ conn' = SplitConn(receipt_id, cost_centers, receipts[receipt_id])
            /\ UNCHANGED last
    /\ UNCHANGED <<receipts, nextId, settings, categories, files, repriced, dd>>

\* The INSERT for the next cost center.
SplitInsert ==
    /\ conn # NoCall
    /\ conn.inserted < Len(conn.cost_centers)
    /\ conn' = [conn EXCEPT !.inserted = @ + 1]
    /\ UNCHANGED <<receipts, nextId, settings, categories, files, last, repriced, dd>>

\* The DELETE of the original receipt.
SplitDelete ==
    /\ conn # NoCall
    /\ conn.inserted = Len(conn.cost_centers)
    /\ ~conn.deleted
    /\ conn' = [conn EXCEPT !.deleted = TRUE]
    /\ UNCHANGED <<receipts, nextId, settings, categories, files, last, repriced, dd>>

\* conn.commit(), conn.close(), return True.
SplitCommit ==
    /\ conn # NoCall
    /\ conn.deleted
    /\ receipts' = Committed(receipts, conn, nextId)
    /\ nextId' = nextId + conn.inserted
    /\ last' = Request("split", conn.receipt_id, conn.cost_centers, 200, conn.receipt)
    /\ conn' = NoCall
    /\ UNCHANGED <<settings, categories, files, repriced, dd>>

\* A statement raises (a cost center sqlite3 cannot bind, a locked
\* database): the connection is dropped with its transaction open, which
\* rolls it back.
SplitRaise ==
    /\ conn # NoCall
    /\ ~conn.deleted
    /\ last' = Request("split", conn.receipt_id, conn.cost_centers, 500, conn.receipt)
    /\ conn' = NoCall
    /\ UNCHANGED <<receipts, nextId, settings, categories, files, repriced, dd>>

TxnSelect ==
    \E id \in 1..MaxId, centers \in CenterLists : SplitSelect(MaxId, id, centers)

\* Requests of other clients, served while the split is in progress and
\* the write lock is free.
TxnUpload ==
    /\ WriteLockFree
    /\ \E total \in {NullNum, Dec(100, 1)} :
          Upload(MaxId - Reserved, ReceiptJpg, OcrText,
                 Extracted(NoneStr, NoneStr, total))

TxnDelete == WriteLockFree /\ \E id \in 1..MaxId : DeleteReceiptRoute(id)

NextTxn ==
    \/ TxnSelect
    \/ SplitInsert
    \/ SplitDelete
    \/ SplitCommit
    \/ SplitRaise
    \/ TxnUpload
    \/ TxnDelete

SpecTxn == Init /\ [][NextTxn]_vars

\* The split that takes the step: the one in progress, or the one begun.
Stepping == IF conn # NoCall THEN conn ELSE conn'

\* The receipts of ids first, first + 1, ... are the replacements of the
\* split c, one per cost center.
Replaced(rs, c, first) ==
    \A k \in 1..Len(c.cost_centers) :
        /\ (first + k - 1) \in DOMAIN rs
        /\ rs[first + k - 1].cc = c.cost_centers[k]
        /\ rs[first + k - 1].reviewed

\* C11: the split is a logical transaction: no step of a split, one that
\* fails part-way included, takes the store other readers observe from a
\* state with the original receipt to a state with the original absent and
\* fewer than N replacements.
C11_SplitAtomic ==
    [][(conn' # conn /\ Stepping.receipt_id \in DOMAIN receipts)
       => \/ Stepping.receipt_id \in DOMAIN receipts'
          \/ Replaced(receipts', Stepping, nextId)
      ]_vars

C11_Witness ==
    /\ conn # NoCall
    /\ conn.inserted = 1
    /\ Len(conn.cost_centers) = 2
    /\ conn.receipt_id \in DOMAIN receipts
    /\ \A i \in DOMAIN receipts : ~receipts[i].reviewed

\* ------------------------------------------------- the reviewed flag
\* The receipt i is reviewed after the step because it was before, or
\* because the step is an update that reached it.
ReviewedByUpdate(i) ==
    \/ i \in DOMAIN receipts /\ receipts[i].reviewed
    \/ last'.op = "update" /\ last'.ret = "updated" /\ last'.id = i

\* The receipt i is inserted by a split of a receipt for which FromOriginal
\* holds.
ReviewedBySplit(i, FromOriginal(_)) ==
    /\ last'.op = "split"
    /\ last'.ret = 200
    /\ i \notin DOMAIN receipts
    /\ FromOriginal(last'.was)

WasReviewed(row) == row.reviewed
AnyOriginal(row) == TRUE

\* Every receipt is created unreviewed, and a step leaves a receipt
\* reviewed only by an update of it or by a split of an original for which
\* FromOriginal holds.
ReviewedOnlyBy(FromOriginal(_)) ==
    /\ (last'.op = "upload" /\ last'.ret = 1) => ~receipts'[last'.id].reviewed
    /\ \A i \in DOMAIN receipts' :
          receipts'[i].reviewed
          => ReviewedByUpdate(i) \/ ReviewedBySplit(i, FromOriginal)

\* C12 as claimed: every receipt is created unreviewed, and a receipt is
\* reviewed only if the update step has been completed for it or for the
\* receipt it was split from; add, bulk reprice and the split of an
\* unreviewed receipt make no receipt reviewed.
C12_ReviewedOnlyAfterUpdate == [][ReviewedOnlyBy(WasReviewed)]_vars

\* C12 as the code has it: every receipt is created unreviewed, and a
\* receipt is reviewed only if the update step has been completed for it or
\* a split inserted it, whether its original was reviewed or not; add and
\* bulk reprice make no receipt reviewed.
C12_ReviewedOnlyAfterUpdateOrSplit == [][ReviewedOnlyBy(AnyOriginal)]_vars

C12_Witness ==
    /\ last.op = "split"
    /\ last.ret = 200
    /\ ~last.was.reviewed
    /\ \E i \in DOMAIN receipts :
          /\ receipts[i].reviewed
          /\ receipts[i].cc = last.arg[1]

\* ------------------------------------------- the store, deletes in focus
\* db.delete_receipt(receipt_id), called on its own.
DeleteReceipt(receipt_id) ==
    /\ receipts' = delete_receipt(receipts, receipt_id).rows
    /\ last' = Request("delete_receipt", receipt_id, NoCall,
                       delete_receipt(receipts, receipt_id).ret,
                       RowOf(receipts, receipt_id))
    /\ UNCHANGED <<nextId, settings, categories, files, repriced, dd, conn>>

DelUpload ==
    \E total \in {NullNum, Dec(100, 1)} :
        Upload(MaxId, ReceiptJpg, OcrText, Extracted(NoneStr, NoneStr, total))

DelDeleteReceipt == \E id \in 1..MaxId : DeleteReceipt(id)

DelDeleteRoute == \E id \in 1..MaxId : DeleteReceiptRoute(id)

NextDelete ==
    \/ DelUpload
    \/ DelDeleteReceipt
    \/ DelDeleteRoute

SpecDelete == Init /\ [][NextDelete]_vars

\* C13: delete_receipt on an id that is not in the store returns False and
\* leaves the set of receipts unchanged; on an id that is in the store it
\* returns True, removes exactly that receipt and leaves every other
\* receipt unchanged.
C13_DeleteExactlyThat ==
    [][(last'.op = "delete_receipt")
       => IF last'.id \in DOMAIN receipts
          THEN /\ last'.ret = TRUE
               /\ DOMAIN receipts' = DOMAIN receipts \ {last'.id}
               /\ \A i \in DOMAIN receipts' : receipts'[i] = receipts[i]
          ELSE /\ last'.ret = FALSE
               /\ receipts' = receipts
      ]_vars

C13_Witness ==
    /\ last.op = "delete_receipt"
    /\ last.ret = TRUE
    /\ last.id = 2
    /\ DOMAIN receipts = {1, 3}

\* ---------------------------------------------------------- receipt ids
\* C14: receipt ids are never reused: every id an insert (add or split)
\* assigns is greater than every id assigned earlier, also after deletes,
\* splits and clear-all have removed receipts.  Every id assigned so far is
\* below the sequence value nextId, which no step lowers, and every id a
\* step assigns is at or above it.
C14_IdsNeverReused ==
    [][/\ \A i \in DOMAIN receipts : i < nextId
       /\ nextId' >= nextId
       /\ \A i \in DOMAIN receipts' \ DOMAIN receipts :
             i >= nextId /\ i < nextId'
      ]_vars

C14_Witness ==
    /\ last.op = "upload"
    /\ last.ret = 1
    /\ last.id = MaxId
    /\ DOMAIN receipts = {MaxId}

\* ----------------------------------------------------- category memory
RECURSIVE UsesIn(_, _)
UsesIn(cats, keys) ==
    IF keys = {} THEN 0
    ELSE LET k == CHOOSE x \in keys : TRUE
         IN  cats[k] + UsesIn(cats, keys \ {k})

\* The selections counted so far.
CategoryUses == UsesIn(categories, DOMAIN categories)

MemUpload == Upload(MaxIdCalc, ReceiptJpg, OcrText, NoData)

MemUpdate ==
    /\ CategoryUses < MaxUses
    /\ \E id \in 1..MaxIdCalc, cuenta \in {NoneTok, "c"}, cc \in {"", "x"},
          reembolso \in {"", "x"} :
          UpdateReceiptRoute(id,
              Form(<<>>, <<>>, FormEmpty, FormEmpty, FormEmpty,
                   cuenta, cc, reembolso, ""))

MemUpdateInvalid ==
    \E id \in 1..MaxIdCalc :
        UpdateReceiptRoute(id,
            Form(<<>>, <<>>, FormBad, FormEmpty, FormEmpty, "c", "x", "x", ""))

MemAddCostCenter ==
    /\ CategoryUses < MaxUses
    /\ \E name \in {NoneTok, "", "x", "y"} : AddCostCenter(name)

NextMemory ==
    \/ MemUpload
    \/ MemUpdate
    \/ MemUpdateInvalid
    \/ MemAddCostCenter

SpecMemory == Init /\ [][NextMemory]_vars

MemoryFields == {"cuenta_contable", "cc", "reembolso"}
MemoryValues == {NoneTok, "", "c", "x", "y"}

\* The usage count category memory holds for (field, value), 0 for no entry.
UsageCount(cats, field, value) ==
    IF <<field, value>> \in DOMAIN cats THEN cats[<<field, value>>] ELSE 0

\* 1 when the step is an update call, or an add-cost-center call, that
\* supplies the value for the field.
Supplies(field, value) ==
    IF last'.op = "update" /\ last'.ret = "updated" /\ last'.arg[field] = value
    THEN 1
    ELSE IF last'.op = "add-cost-center" /\ field = "cc" /\ last'.arg = value
    THEN 1
    ELSE 0

\* C15: the usage count stored for (field, value) is the number of update
\* calls that supplied that non-empty value for that field, plus for cost
\* centers the number of add-cost-center calls with it: every such call
\* adds one to it and nothing else changes it; an empty or absent value
\* creates no entry.
C15_UsageCountsCalls ==
    [][\A field \in MemoryFields, value \in MemoryValues :
          /\ UsageCount(categories', field, value) =
                UsageCount(categories, field, value)
                + (IF value \in {NoneTok, ""} THEN 0 ELSE Supplies(field, value))
          /\ <<field, value>> \in DOMAIN categories' =>
                /\ value \notin {NoneTok, ""}
                /\ categories'[<<field, value>>] >= 1
      ]_vars

C15_Witness ==
    /\ last.op = "add-cost-center"
    /\ last.ret = 200
    /\ last.arg = "x"
    /\ categories[<<"cc", "x">>] = 2
    /\ DOMAIN categories = {<<"cc", "x">>, <<"reembolso", "x">>}
    /\ categories[<<"reembolso", "x">>] = 1

\* ------------------------------------------ the review form, resubmitted
ResubmitForms ==
    {Form(NameA, DateIso, Dec(100, 1), Dec(20, 1), FormEmpty, "", "", "", "d"),
     Form(NameA, DateIso, Dec(100, 1), Dec(20, 1), Dec(0, 1), "", "", "", ""),
     Form(NameA, <<>>, FormEmpty, FormEmpty, FormEmpty, "", "", "", "")}

ResUpload == Upload(MaxId, ReceiptJpg, OcrText, NoData)

ResUpdate ==
    \E id \in 1..MaxId, form \in ResubmitForms : UpdateReceiptRoute(id, form)

NextResubmit ==
    \/ ResUpload
    \/ ResUpdate

SpecResubmit == Init /\ [][NextResubmit]_vars

\* The step applies to a receipt the update that was applied to it in the
\* step before.
Resubmission ==
    /\ last.op = "update"
    /\ last.ret = "updated"
    /\ last'.op = "update"
    /\ last'.ret = "updated"
    /\ last'.id = last.id
    /\ last'.arg = last.arg
    /\ last.id \in DOMAIN receipts

\* C16: applying update twice in a row to the same receipt with identical
\* arguments leaves the same restaurant name, date, local amount,
\* accounting fields, reporting amount, reviewed flag and display filename
\* as applying it once; the receipt's own display filename causes no
\* numeric suffix.
C16_ResubmitIdempotent ==
    [][Resubmission => receipts'[last.id] = receipts[last.id]]_vars

C16_Witness ==
    /\ last.op = "update"
    /\ last.ret = "updated"
    /\ last.id \in DOMAIN receipts
    /\ last.was = receipts[last.id]
    /\ IsNum(receipts[last.id].amount_mxn)
    /\ receipts[last.id].display_filename =
          Suffixed(format_receipt_filename(DateIso, NameA), 2) \o PdfExt

\* --------------------------------- the earlier application, src/app.py
\* filename_utils.format_receipt_filename parses the date with
\* datetime.strptime(date_str, '%Y-%m-%d').
DigitValue(c) == CHOOSE k \in 0..9 : DigitChars[k + 1] = c

RECURSIVE StrToInt(_)
StrToInt(s) ==
    IF s = <<>> THEN 0
    ELSE StrToInt(SubSeq(s, 1, Len(s) - 1)) * 10 + DigitValue(s[Len(s)])

AllDigits(s) == \A i \in 1..Len(s) : s[i] \in Digits

IsLeap(y) == (y % 4 = 0 /\ y % 100 # 0) \/ y % 400 = 0

DaysIn(y, m) ==
    IF m = 2 THEN (IF IsLeap(y) THEN 29 ELSE 28)
    ELSE IF m \in {4, 6, 9, 11} THEN 30 ELSE 31

NoDate == [nodate |-> TRUE]

\* strptime(date_str, '%Y-%m-%d'): four digits, one or two, one or two, a
\* month of the year and a day of that month; NoDate for ValueError.
Strptime(date_str) ==
    LET dashes == {i \in 1..Len(date_str) : date_str[i] = "-"}
    IN  IF Cardinality(dashes) # 2 THEN NoDate
        ELSE LET d1 == CHOOSE i \in dashes : \A j \in dashes : i <= j
                 d2 == CHOOSE i \in dashes : \A j \in dashes : i >= j
                 y == SubSeq(date_str, 1, d1 - 1)
                 m == SubSeq(date_str, d1 + 1, d2 - 1)
                 d == SubSeq(date_str, d2 + 1, Len(date_str))
             IN  IF /\ Len(y) = 4 /\ Len(m) \in 1..2 /\ Len(d) \in 1..2
                    /\ AllDigits(y) /\ AllDigits(m) /\ AllDigits(d)
                    /\ StrToInt(y) >= 1
                    /\ StrToInt(m) \in 1..12
                    /\ StrToInt(d) \in 1..DaysIn(StrToInt(y), StrToInt(m))
                 THEN [year |-> y, month |-> StrToInt(m)]
                 ELSE NoDate

\* strftime('%Y_%m')
YearMonth(parsed) ==
    parsed.year \o <<"_">>
        \o (IF parsed.month < 10 THEN <<"0">> ELSE <<>>) \o IntToStr(parsed.month)

\* re.sub(r'[^\w\s-]', '', restaurant_name): \w keeps accented letters.
KeepsLegacy(c) == IsWordChar(c) \/ IsSep(c) \/ c = "<e-acute>"

RECURSIVE SquashSpaces(_)
\* re.sub(r'\s+', ' ', clean_name)
SquashSpaces(s) ==
    IF s = <<>> THEN <<>>
    ELSE IF IsSpace(Head(s)) /\ Len(s) > 1 /\ IsSpace(s[2]) THEN SquashSpaces(Tail(s))
    ELSE <<Head(s)>> \o SquashSpaces(Tail(s))

RECURSIVE LStripSpace(_)
LStripSpace(s) == IF s # <<>> /\ IsSpace(Head(s)) THEN LStripSpace(Tail(s)) ELSE s

RECURSIVE RStripSpace(_)
RStripSpace(s) ==
    IF s # <<>> /\ IsSpace(s[Len(s)]) THEN RStripSpace(SubSeq(s, 1, Len(s) - 1)) ELSE s

NameLimit == 30

\* clean_name of filename_utils.format_receipt_filename
LegacyCleanName(restaurant_name) ==
    LET kept == SelectSeq(restaurant_name, KeepsLegacy)
        clean == RStripSpace(LStripSpace(SquashSpaces(kept)))
    IN  SubSeq(clean, 1, IF Len(clean) < NameLimit THEN Len(clean) ELSE NameLimit)

\* filename_utils.format_receipt_filename(date_str, restaurant_name,
\* file_extension); the extension is one token.
legacy_format_receipt_filename(date_str, restaurant_name, file_extension) ==
    IF ~TruthyStr(date_str) \/ ~TruthyStr(restaurant_name) THEN NoneStr
    ELSE IF Strptime(date_str) = NoDate THEN NoneStr
    ELSE YearMonth(Strptime(date_str)) \o <<"_">>
             \o LegacyCleanName(restaurant_name) \o <<file_extension>>

UploadDir == <<"data/uploads/">>

RECURSIVE RenameLoop(_, _, _, _, _)
\* rename_receipt_file: while os.path.exists(new_path), counter from 1.
RenameLoop(fs, directory, base_name, ext, counter) ==
    LET new_path == directory \o base_name \o <<"_">> \o IntToStr(counter) \o <<ext>>
    IN  IF new_path \in fs
        THEN RenameLoop(fs, directory, base_name, ext, counter + 1)
        ELSE new_path

\* rename_receipt_file(old_path, new_filename): the new path, NoneStr for None.
rename_receipt_file(fs, old_path, new_filename) ==
    IF old_path \notin fs \/ ~TruthyStr(new_filename) THEN NoneStr
    ELSE LET directory == <<Head(old_path)>>
             base_name == SubSeq(new_filename, 1, Len(new_filename) - 1)
             ext == new_filename[Len(new_filename)]
         IN  IF directory \o new_filename \in fs
             THEN RenameLoop(fs, directory, base_name, ext, 1)
             ELSE directory \o new_filename

\* update_receipt of the database module src/app.py imports: the same
\* UPDATE without the display_filename column.
LegacyUpdatedRows(rs, receipt_id, restaurant_name, date, total_amount, cuenta_contable, cc, fx_rate, markup_percent, reembolso, detalle) ==
    [i \in DOMAIN rs |->
        IF i = receipt_id
        THEN [rs[i] EXCEPT
                !.restaurant_name = restaurant_name, !.date = date,
                !.total_amount = total_amount, !.cuenta_contable = cuenta_contable,
                !.cc = cc, !.fx_rate = fx_rate, !.markup_percent = markup_percent,
                !.amount_mxn = UpdateAmount(total_amount, fx_rate, markup_percent),
                !.reembolso = reembolso, !.detalle = detalle,
                !.reviewed = TRUE]
        ELSE rs[i]]

\* The new file name and path of the receipt, NoneStr when nothing is renamed.
LegacyRename(fs, rs, receipt_id, date, restaurant_name) ==
    IF /\ TruthyStr(date) /\ TruthyStr(restaurant_name)
       /\ receipt_id \in DOMAIN rs
    THEN LET new_filename ==
                 legacy_format_receipt_filename(date, restaurant_name, ".jpeg")
         IN  IF new_filename = NoneStr
             THEN [new_filename |-> NoneStr, new_path |-> NoneStr]
             ELSE [new_filename |-> new_filename,
                   new_path |-> rename_receipt_file(fs, rs[receipt_id].file_path,
                                                    new_filename)]
    ELSE [new_filename |-> NoneStr, new_path |-> NoneStr]

\* POST /update/<id> of src/app.py
LegacyUpdateReceiptRoute(receipt_id, form) ==
    /\ IF FormBad \in {form.total_amount, form.fx_rate, form.markup_percent}
       THEN /\ UNCHANGED <<receipts, categories, files>>
            /\ last' = Request("update", receipt_id, form, "invalid",
                               RowOf(receipts, receipt_id))
       ELSE LET updated == LegacyUpdatedRows(receipts, receipt_id,
                               form.restaurant_name, form.date,
                               FormFloat(form.total_amount),
                               form.cuenta_contable, form.cc,
                               FormFloat(form.fx_rate),
                               FormFloat(form.markup_percent),
                               form.reembolso, form.detalle)
                renamed == LegacyRename(files, updated, receipt_id, form.date,
                                        form.restaurant_name)
            IN  /\ IF renamed.new_path # NoneStr
                   THEN /\ files' = (files \ {updated[receipt_id].file_path})
                                        \cup {renamed.new_path}
                        /\ receipts' =
                              [updated EXCEPT
                                  ![receipt_id].file_path = renamed.new_path,
                                  ![receipt_id].filename = renamed.new_filename]
                   ELSE /\ receipts' = updated
                        /\ UNCHANGED files
                /\ categories' = RememberSelections(categories, form.cuenta_contable,
                                                    form.cc, form.reembolso)
                /\ last' = Request("update", receipt_id, form, "updated",
                                   RowOf(receipts, receipt_id))
    /\ UNCHANGED <<nextId, settings, repriced, dd, conn>>

LegUpload ==
    \E name \in {ReceiptJpg, <<"r2", ".", "jpg">>} :
        Upload(MaxIdCalc, name, OcrText, NoData)

LegUpdate ==
    \E id \in 1..MaxIdCalc, date \in {<<>>, DateIso, DatePdf} :
        LegacyUpdateReceiptRoute(id,
            Form(NameA, date, Dec(100, 1), FormEmpty, FormEmpty, "", "", "", ""))

LegUpdateCurrent ==
    \E id \in 1..MaxIdCalc :
        UpdateReceiptRoute(id,
            Form(NameA, DateIso, Dec(100, 1), FormEmpty, FormEmpty, "", "", "", ""))

LegReprice == UpdateFxRate([fx_rate |-> Dec(10, 1), markup_percent |-> NoKey])

NextLegacy ==
    \/ LegUpload
    \/ LegUpdate
    \/ LegUpdateCurrent
    \/ LegReprice

SpecLegacy == Init /\ [][NextLegacy]_vars

\* C17: after a receipt is created, no review/update and no bulk reprice
\* changes its original filename, its file path or its raw extracted text.
C17_SourceFieldsImmutable ==
    [][(last'.op \in {"update", "reprice"})
       => \A i \in DOMAIN receipts \cap DOMAIN receipts' :
             /\ receipts'[i].filename = receipts[i].filename
             /\ receipts'[i].file_path = receipts[i].file_path
             /\ receipts'[i].ocr_text = receipts[i].ocr_text
      ]_vars

\* ------------------------------------------ the routes, bad numbers sent
ValUpload == Upload(MaxIdCalc, ReceiptJpg, OcrText, NoData)

ValUpdate ==
    \E id \in 1..MaxIdCalc, rate \in {FormBad, Dec(0, 1), Dec(-20, 1), Dec(20, 1)},
       markup \in {FormEmpty, FormBad} :
        UpdateReceiptRoute(id,
            Form(<<>>, <<>>, Dec(100, 1), rate, markup, "", "", "", ""))

ValReprice ==
    \E rate \in {JsonText, Dec(0, 1), Dec(-10, 1), Dec(10, 1)},
       markup \in {NoKey, JsonText} :
        UpdateFxRate([fx_rate |-> rate, markup_percent |-> markup])

NextValidate ==
    \/ ValUpload
    \/ ValUpdate
    \/ ValReprice

SpecValidate == Init /\ [][NextValidate]_vars

\* The value is a number, and it is zero or negative.
NonPositiveNumber(x) ==
    /\ x \notin {FormEmpty, FormBad, NoKey, NullNum, JsonText}
    /\ ~PosNum(x)

\* The request carries a non-numeric number or a non-positive exchange rate.
BadRequest(req) ==
    \/ /\ req.op = "update"
       /\ \/ FormBad \in {req.arg.total_amount, req.arg.fx_rate, req.arg.markup_percent}
          \/ NonPositiveNumber(req.arg.fx_rate)
    \/ /\ req.op = "reprice"
       /\ \/ JsonText \in {req.arg.fx_rate, req.arg.markup_percent}
          \/ NonPositiveNumber(req.arg.fx_rate)

Rejected(req) ==
    IF req.op = "update" THEN req.ret = "invalid" ELSE req.ret.status \in {400, 500}

\* C18: a request that carries a non-numeric number or a non-positive
\* exchange rate, sent to the review/update route or to the bulk-reprice
\* route, is rejected and leaves every receipt, its reviewed flag included,
\* and the stored defaults unchanged.
C18_BadNumbersRejected ==
    [][BadRequest(last')
       => /\ Rejected(last')
          /\ receipts' = receipts
          /\ settings' = settings
      ]_vars

\* ------------------------------------ the two canonicalizers as functions
MaxNameLen == 3

NameChars == {"A", " ", "-", "_", "&", "<e-acute>", "<euro>"}

\* None, and every text of at most MaxNameLen characters.
FormatNames ==
    {NoneStr} \cup UNION {[1..n -> NameChars] : n \in 0..MaxNameLen}

FormatDates ==
    { NoneStr, <<>>,
      <<"2", "0", "2", "5", "-", "1", "0", "-", "1", "5">>,
      <<"2", "0", "2", "5", "-", "1", "3", "-", "0", "1">>,
      <<"2", "0", "2", "5", "-", "0", "2", "-", "3", "0">>,
      <<"1", "5", "/", "1", "0", "/", "2", "0", "2", "5">>,
      <<"2", "0", "2", "5">>,
      PdfExt }

JpegExt == ".jpeg"

InitFormat ==
    /\ receipts = EmptyStore
    /\ nextId = 1
    /\ settings = [k \in {"default_fx_rate", "default_markup_percent"} |-> NoSetting]
    /\ categories = [k \in {} |-> 0]
    /\ files = {}
    /\ last = Request("start", 0, NoCall, NoCall, NoRow)
    /\ repriced = NoCall
    /\ conn = NoCall
    /\ dd \in {[fn |-> "input", date |-> d, name |-> n] :
                  d \in FormatDates, n \in FormatNames}

\* core.file_utils.format_receipt_filename(date, name)
CallFormatReceiptFilename ==
    /\ dd.fn = "input"
    /\ dd' = [fn |-> "format_receipt_filename", date |-> dd.date, name |-> dd.name,
              result |-> format_receipt_filename(dd.date, dd.name)]
    /\ UNCHANGED <<receipts, nextId, settings, categories, files, last, repriced, conn>>

\* core.filename_utils.format_receipt_filename(date, name)
CallLegacyFormatReceiptFilename ==
    /\ dd.fn = "input"
    /\ dd' = [fn |-> "legacy_format_receipt_filename", date |-> dd.date,
              name |-> dd.name,
              result |-> legacy_format_receipt_filename(dd.date, dd.name, JpegExt)]
    /\ UNCHANGED <<receipts, nextId, settings, categories, files, last, repriced, conn>>

\* sanitize_filename(name)
CallSanitizeFilename ==
    /\ dd.fn = "input"
    /\ dd' = [fn |-> "sanitize_filename", date |-> dd.date, name |-> dd.name,
              once |-> sanitize_filename(dd.name)]
    /\ UNCHANGED <<receipts, nextId, settings, categories, files, last, repriced, conn>>

\* sanitize_filename of the sanitized name
CallSanitizeAgain ==
    /\ dd.fn = "sanitize_filename"
    /\ dd' = [fn |-> "sanitize_again", date |-> dd.date, name |-> dd.name,
              once |-> dd.once, twice |-> sanitize_filename(dd.once)]
    /\ UNCHANGED <<receipts, nextId, settings, categories, files, last, repriced, conn>>

\* format_receipt_filename(date, the sanitized name)
CallFormatSanitized ==
    /\ dd.fn = "sanitize_again"
    /\ dd' = [fn |-> "format_sanitized", date |-> dd.date, name |-> dd.name,
              once |-> dd.once, twice |-> dd.twice,
              result |-> format_receipt_filename(dd.date, dd.once)]
    /\ UNCHANGED <<receipts, nextId, settings, categories, files, last, repriced, conn>>

NextFormat ==
    \/ CallFormatReceiptFilename
    \/ CallLegacyFormatReceiptFilename
    \/ CallSanitizeFilename
    \/ CallSanitizeAgain
    \/ CallFormatSanitized

SpecFormat == InitFormat /\ [][NextFormat]_vars

\* C19: format_receipt_filename returns the null signal whenever the date or
\* the name is missing or empty, or the date does not parse as a YYYY-MM-DD
\* date; it returns a name only for a date in that format.
C19_NullUnlessDateParses ==
    dd.fn \in {"format_receipt_filename", "legacy_format_receipt_filename"}
    => /\ (~TruthyStr(dd.date) \/ ~TruthyStr(dd.name)) => dd.result = NoneStr
       /\ Strptime(dd.date) = NoDate => dd.result = NoneStr

\* C20: canonicalization is deterministic and idempotent: for every name,
\* sanitize_filename(sanitize_filename(name)) = sanitize_filename(name), so
\* canonicalizing a (date, name) pair whose name portion is already
\* sanitized returns the same string.
C20_SanitizeIdempotent ==
    /\ dd.fn \in {"sanitize_again", "format_sanitized"} => dd.twice = dd.once
    /\ (dd.fn = "format_sanitized" /\ TruthyStr(dd.date) /\ TruthyStr(dd.name))
       => dd.result = format_receipt_filename(dd.date, dd.name)

\* a name that sanitizing changes into something other than "Unknown", and a
\* canonical name formed from its sanitized form
C20_Witness ==
    /\ dd.fn = "format_sanitized"
    /\ dd.once \notin {dd.name, Unknown}
    /\ "_" \in {dd.once[i] : i \in 1..Len(dd.once)}
    /\ dd.result # NoneStr

\* ------------------------------------------------------- the dashboard
\* get_all_receipts: ORDER BY created_at DESC. created_at is
\* CURRENT_TIMESTAMP, one second fine: rows created a second or more apart
\* come newest first, rows created within one second in an order the engine
\* chooses.  A listing is any order of the ids present.
Listings(rs) ==
    {order \in [1..Cardinality(DOMAIN rs) -> DOMAIN rs] :
        \A a, b \in 1..Cardinality(DOMAIN rs) : a # b => order[a] # order[b]}

\* seen_filenames.get(name, 0)
SeenCount(seen, name) == IF name \in DOMAIN seen THEN seen[name] ELSE 0

RECURSIVE IndexLoop(_, _, _)
\* index(): the loop over the listing; the result maps each id to the
\* display name the page shows for it.
IndexLoop(rs, order, seen_filenames) ==
    IF order = <<>> THEN [i \in {} |-> NoneStr]
    ELSE LET id == Head(order)
             receipt == rs[id]
             named == /\ receipt.reviewed
                      /\ TruthyStr(receipt.date)
                      /\ TruthyStr(receipt.restaurant_name)
             formatted_name ==
                 format_receipt_filename(receipt.date, receipt.restaurant_name)
             count == SeenCount(seen_filenames, formatted_name) + 1
             display_name ==
                 IF ~named THEN receipt.filename
                 ELSE IF count > 1
                 THEN formatted_name \o <<"_">> \o IntToStr(count) \o PdfExt
                 ELSE formatted_name \o PdfExt
             seen == IF ~named THEN seen_filenames
                     ELSE [n \in DOMAIN seen_filenames \cup {formatted_name} |->
                              IF n = formatted_name THEN count
                              ELSE seen_filenames[n]]
             rest == IndexLoop(rs, Tail(order), seen)
         IN  [i \in DOMAIN rest \cup {id} |->
                 IF i = id THEN display_name ELSE rest[i]]

\* GET /
Index(order) ==
    /\ last' = Request("index", 0, order,
                       IndexLoop(receipts, order, [n \in {} |-> 0]), NoRow)
    /\ UNCHANGED <<receipts, nextId, settings, categories, files, repriced, dd, conn>>

NameA2 == <<"A", " ", "2">>

DashUpload == Upload(MaxId, ReceiptJpg, OcrText, NoData)

DashUpdate ==
    \E id \in 1..MaxId, name \in {NameA, NameA2} :
        UpdateReceiptRoute(id,
            Form(name, DateIso, FormEmpty, FormEmpty, FormEmpty, "", "", "", ""))

DashDelete == \E id \in 1..MaxId : DeleteReceiptRoute(id)

DashIndex == \E order \in Listings(receipts) : Index(order)

NextDash ==
    \/ DashUpload
    \/ DashUpdate
    \/ DashDelete
    \/ DashIndex

SpecDash == Init /\ [][NextDash]_vars

\* The reviewed receipts that have a date and a restaurant name.
Named(rs) ==
    {i \in DOMAIN rs : /\ rs[i].reviewed
                       /\ TruthyStr(rs[i].date)
                       /\ TruthyStr(rs[i].restaurant_name)}

\* C21: the dedup scope is applied uniformly: in every reachable store
\* state, the display name the dashboard derives for each reviewed receipt,
\* by its in-memory dedup over the listing, equals that receipt's persisted
\* display filename computed at review time.
C21_DashboardShowsPersisted ==
    last.op = "index"
    => \A i \in Named(receipts) : last.ret[i] = receipts[i].display_filename

\* C25: within one rendering of the dashboard, the display names assigned to
\* the reviewed receipts that have a date and a restaurant name are pairwise
\* distinct, including when one receipt's canonical name already ends in a
\* numeric suffix such as _2.
C25_DashboardNamesDistinct ==
    last.op = "index"
    => \A i, j \in Named(receipts) : i # j => last.ret[i] # last.ret[j]

\* ------------------------------------------- uploads, extraction failing
NotesTxt == <<"notes", ".", "txt">>

\* extract_text_from_file: None when the reader raised, '' for a PDF with
\* no text layer, or the text.  extract_receipt_data: None when the model
\* call or its JSON failed, or the fields it found.
UplUpload ==
    \E filename \in {ReceiptJpg, NotesTxt},
       extracted_text \in {NoneStr, <<>>, OcrText},
       receipt_data \in {NoData, Extracted(NoneStr, NoneStr, NullNum),
                         Extracted(NameA, DateIso, Dec(100, 1))} :
        Upload(MaxId, filename, extracted_text, receipt_data)

UplDelete == \E id \in 1..MaxId : DeleteReceiptRoute(id)

NextUploads ==
    \/ UplUpload
    \/ UplDelete

SpecUploads == Init /\ [][NextUploads]_vars

\* C22: every uploaded file with an allowed extension results in a stored
\* receipt, even when the OCR step or the LLM step fails; the fields that
\* could not be extracted are stored as null and no upload is dropped
\* because extraction failed.
C22_UploadAlwaysStored ==
    (last.op = "upload" /\ last.arg # <<>> /\ allowed_file(last.arg))
    => /\ last.id \in DOMAIN receipts
       /\ receipts[last.id].filename = last.arg
       /\ receipts[last.id].file_path = UploadPath(last.arg)

\* ------------------------------------------------------------ the exports
NoReceipts == [none |-> TRUE]
NoReviewed == [raised |-> "ValueError"]

\* GET /export: export_to_csv, one line per receipt of get_all_receipts.
Export ==
    /\ last' = Request("export", 0, NoCall,
                       IF DOMAIN receipts = {} THEN NoReceipts
                       ELSE [rows |-> DOMAIN receipts],
                       NoRow)
    /\ UNCHANGED <<receipts, nextId, settings, categories, files, repriced, dd, conn>>

\* GET /export/pdf: ExpensePDFGenerator.generate_expense_report, the
\* receipts it selects.
ExportPdf ==
    /\ last' = Request("export/pdf", 0, NoCall,
                       IF Reviewed(receipts) = {} THEN NoReviewed
                       ELSE [rows |-> Reviewed(receipts)],
                       NoRow)
    /\ UNCHANGED <<receipts, nextId, settings, categories, files, repriced, dd, conn>>

\* ExcelExpenseGenerator.generate_monthly_report, the receipts it selects.
GenerateMonthlyReport ==
    /\ last' = Request("export/excel", 0, NoCall,
                       IF Reviewed(receipts) = {} THEN NoReviewed
                       ELSE [rows |-> Reviewed(receipts)],
                       NoRow)
    /\ UNCHANGED <<receipts, nextId, settings, categories, files, repriced, dd, conn>>

\* export_organized_receipts: the receipts it does not skip before the
\* conversion.
Exportable(rs, fs) ==
    {i \in DOMAIN rs : /\ rs[i].reviewed
                       /\ rs[i].file_path \in fs
                       /\ TruthyStr(rs[i].date)
                       /\ TruthyStr(rs[i].restaurant_name)}

\* GET /export/organized-files; converted: the receipts for which
\* convert_image_to_pdf succeeds.
ExportOrganizedFiles(converted) ==
    /\ last' = Request("export/organized-files", 0, NoCall,
                       IF Reviewed(receipts) = {} THEN NoReviewed
                       ELSE [rows |-> Exportable(receipts, files) \cap converted],
                       NoRow)
    /\ UNCHANGED <<receipts, nextId, settings, categories, files, repriced, dd, conn>>

ExpUpload == Upload(MaxId, ReceiptJpg, OcrText, Extracted(NameA, DateIso, NullNum))

ExpUpdate ==
    \E id \in 1..MaxId, date \in {<<>>, DateIso} :
        UpdateReceiptRoute(id,
            Form(NameA, date, FormEmpty, FormEmpty, FormEmpty, "", "", "", ""))

ExpDelete == \E id \in 1..MaxId : DeleteReceiptRoute(id)

ExpExportOrganizedFiles ==
    \E converted \in SUBSET DOMAIN receipts : ExportOrganizedFiles(converted)

NextExport ==
    \/ ExpUpload
    \/ ExpUpdate
    \/ ExpDelete
    \/ Export
    \/ ExportPdf
    \/ GenerateMonthlyReport
    \/ ExpExportOrganizedFiles

SpecExport == Init /\ [][NextExport]_vars

\* C23: every report export (CSV, PDF, Excel, organized files) contains only
\* receipts whose reviewed flag is true; no unreviewed receipt appears in any
\* exported report.
C23_ExportsOnlyReviewed ==
    (/\ last.op \in {"export", "export/pdf", "export/excel", "export/organized-files"}
     /\ last.ret \notin {NoReceipts, NoReviewed})
    => \A i \in last.ret.rows : receipts[i].reviewed

\* ------------------------------------------------- clear-all, files in focus
ReceiptPdf == <<"r2", ".", "pdf">>

ClrUpload ==
    \E filename \in {ReceiptJpg, ReceiptPdf} :
        Upload(MaxId, filename, OcrText, NoData)

ClrDelete == \E id \in 1..MaxId : DeleteReceiptRoute(id)

ClrClear == ClearAllReceipts

NextClear ==
    \/ ClrUpload
    \/ ClrDelete
    \/ ClrClear

SpecClear == Init /\ [][NextClear]_vars

\* The backing files of the receipts of rs that exist in fs.
BackingFiles(rs, fs) == {rs[i].file_path : i \in DOMAIN rs} \cap fs

\* C24: clear-all leaves the store with zero receipts and returns (records
\* removed, files removed), where records removed equals the number of
\* receipts before the call and files removed equals the number of backing
\* files that existed on disk and were deleted; a backing file that is
\* already missing does not abort the call or prevent its record from being
\* removed.
C24_ClearAllCounts ==
    [][last'.op = "clear"
       => /\ receipts' = EmptyStore
          /\ last'.ret.deleted_records = Cardinality(DOMAIN receipts)
          /\ files \ files' = BackingFiles(receipts, files)
          /\ last'.ret.deleted_files = Cardinality(files \ files')
      ]_vars

\* a clear-all of two receipts, one with its file on disk and one whose file
\* was already missing
C24_Witness ==
    /\ last.op = "clear"
    /\ last.ret.deleted_records = 2
    /\ last.ret.deleted_files = 1
    /\ receipts = EmptyStore

\* The row's reporting amount is the formula of its own stored fields.
OwnFormula(row) ==
    IF IsNum(row.total_amount) /\ IsNum(row.fx_rate) /\ IsNum(row.markup_percent)
    THEN IF DivisorZero(row.fx_rate) THEN FALSE
         ELSE row.amount_mxn =
                 ReportingFormula(row.total_amount, row.fx_rate, row.markup_percent)
    ELSE FALSE

\* C26: in every reachable state, every receipt whose stored reporting amount
\* is non-null satisfies reporting amount = (stored local amount / stored
\* exchange rate) * (1 + stored markup percent / 100), using the receipt's
\* own stored rate and markup, after any sequence of add, update, split and
\* bulk reprice.
C26_StoredAmountIsFormula ==
    \A i \in DOMAIN receipts :
        IsNum(receipts[i].amount_mxn) => OwnFormula(receipts[i])

\* C27: deleting one receipt through the delete route never removes a backing
\* file that another receipt still in the store references: after any
\* delete, every remaining receipt whose file existed before the delete
\* still has its file (this includes sibling receipts produced by a
\* cost-center split, which share one file path).
C27_DeleteKeepsSharedFile ==
    [][last'.op = "delete"
       => \A i \in DOMAIN receipts' :
             receipts[i].file_path \in files => receipts'[i].file_path \in files'
      ]_vars

\* C28: in every reachable state, every reviewed receipt that has both a date
\* and a restaurant name has a non-null persisted display filename,
\* including the reviewed receipts inserted by a cost-center split.
C28_NamedHaveDisplayFilename ==
    \A i \in Named(receipts) : receipts[i].display_filename # NoneStr

\* C29: an update addressed to an id that is not in the store changes
\* nothing: no receipt is modified or created, and no category-memory
\* counter is created or incremented.
C29_UpdateOfAbsentIdNoChange ==
    [][(last'.op = "update" /\ last'.id \notin DOMAIN receipts)
       => /\ receipts' = receipts
          /\ categories' = categories
      ]_vars

\* ------------------------------------------- update requests, interleaved
\* Every request opens its own connection.  update_receipt runs a SELECT of
\* the taken display filenames, the loop in memory, then the UPDATE and the
\* commit; the SELECT holds no lock once its rows are fetched, so another
\* request's statements can run between the two.  conn holds, for every
\* update that has read and not yet written, its form and the names it read.
NoUpdates == [i \in {} |-> NoCall]

Reading == IF conn = NoCall THEN NoUpdates ELSE conn.reading

UpdatesInFlight(reading) ==
    IF DOMAIN reading = {} THEN NoCall
    ELSE [fn |-> "update_receipt", reading |-> reading]

\* POST /update/<id> up to the SELECT of the taken display filenames.
UpdateSelect(receipt_id, form) ==
    /\ receipt_id \notin DOMAIN Reading
    /\ conn' = UpdatesInFlight(
                  [i \in DOMAIN Reading \cup {receipt_id} |->
                      IF i = receipt_id
                      THEN [form |-> form,
                            existing_filenames |->
                                ExistingFilenames(receipts, receipt_id)]
                      ELSE Reading[i]])
    /\ UNCHANGED <<receipts, nextId, settings, categories, files, last, repriced, dd>>

\* update_receipt: the display filename it stores, from the names it read.
DisplayFilenameFrom(existing_filenames, date, restaurant_name) ==
    IF TruthyStr(date) /\ TruthyStr(restaurant_name)
    THEN LET formatted_name == format_receipt_filename(date, restaurant_name)
         IN  IF TruthyStr(formatted_name)
             THEN UniqueDisplayName(formatted_name, existing_filenames) \o PdfExt
             ELSE NoneStr
    ELSE NoneStr

\* The rest of the request: the UPDATE, the commit, the category memory.
UpdateWrite(receipt_id) ==
    /\ receipt_id \in DOMAIN Reading
    /\ LET form == Reading[receipt_id].form
           rows == UpdatedRows(receipts, receipt_id, form.restaurant_name,
                       form.date, FormFloat(form.total_amount),
                       form.cuenta_contable, form.cc, FormFloat(form.fx_rate),
                       FormFloat(form.markup_percent), form.reembolso, form.detalle)
       IN  /\ receipts' =
                 [i \in DOMAIN rows |->
                     IF i = receipt_id
                     THEN [rows[i] EXCEPT !.display_filename =
                              DisplayFilenameFrom(
                                  Reading[receipt_id].existing_filenames,
                                  form.date, form.restaurant_name)]
                     ELSE rows[i]]
           /\ categories' = RememberSelections(categories, form.cuenta_contable,
                                               form.cc, form.reembolso)
           /\ last' = Request("update", receipt_id, form, "updated",
                              RowOf(receipts, receipt_id))
    /\ conn' = UpdatesInFlight(
                  [i \in DOMAIN Reading \ {receipt_id} |-> Reading[i]])
    /\ UNCHANGED <<nextId, settings, files, repriced, dd>>

RaceUpload == Upload(MaxId, ReceiptJpg, OcrText, NoData)

MaxInFlight == 2    \* update requests that have read and not yet written

RaceSelect ==
    /\ Cardinality(DOMAIN Reading) < MaxInFlight
    /\ \E id \in 1..MaxId :
          UpdateSelect(id,
              Form(NameA, DateIso, FormEmpty, FormEmpty, FormEmpty, "", "", "", ""))

RaceWrite == \E id \in 1..MaxId : UpdateWrite(id)

NextRace ==
    \/ RaceUpload
    \/ RaceSelect
    \/ RaceWrite

SpecRace == Init /\ [][NextRace]_vars

\* C30: when two update requests for two different receipts with the same
\* canonical name are interleaved (each reads the set of taken display
\* filenames before either writes its own), the two receipts still end with
\* different display filenames.
C30_InterleavedUpdatesDistinct ==
    conn = NoCall
    => \A i, j \in Named(receipts) :
          (/\ i # j
           /\ format_receipt_filename(receipts[i].date, receipts[i].restaurant_name)
                = format_receipt_filename(receipts[j].date, receipts[j].restaurant_name))
          => receipts[i].display_filename # receipts[j].display_filename

====
